---- MODULE Spec2Model ----
(***************************************************************************)
(* Model of the hybrid receipt extraction agent (receipt_processor):       *)
(*   - ReceiptLearner      (learning_engine.py)                            *)
(*   - ReceiptProcessor    (main.py), with the local extractor's           *)
(*     confidence score (extractor.py) and the Gemini client's result      *)
(*     normalisation (gemini_api.py)                                       *)
(*   - batch_process_receipts (main.py)                                    *)
(*   - ReceiptExtractor    (extractor.py): identify_shop, the template and *)
(*     generic extraction, called directly on bounded inputs               *)
(*   - several ReceiptLearner instances on the same files                  *)
(*                                                                         *)
(* Conventions.  Python floats that are confidences are integers in units  *)
(* of 1/ConfScale (0.85 is Pct(85)); a score that floating point computes  *)
(* one ulp off the exact sum is one unit off (see FloatRounding).  None is *)
(* Python's None for a number and NoneStr for a string.  Money is in       *)
(* hundredths.  A dict is a record and dict.get(k, d) is Get(d, k, d).     *)
(***************************************************************************)
EXTENDS Integers, Sequences, FiniteSets, TLC

VARIABLES
    \* ---- module-level state
    GEMINI_AVAILABLE,     \* main.GEMINI_AVAILABLE: gemini_api could be imported
    learning_history,     \* receipt_learner.learning_history
    templates_file,       \* contents of shop_templates.json
    shop_templates,       \* extractor.shop_templates, loaded at import
    \* ---- ReceiptProcessor
    processing_stats,
    \* ---- locals of the process_receipt call in progress
    pc,
    raw_text,
    shop_id,
    extracted_data,
    confidence,
    needs_fallback,
    gemini_data,
    gemini_confidence,
    final_data,
    processing_method,
    result,               \* the value process_receipt returns
    image_path,           \* the argument of process_receipt
    \* ---- batch_process_receipts
    batch_pc,             \* "Idle", "Loop" (in the for loop) or "Returned"
    image_paths,
    results,
    \* ---- history variables (observations, not program state)
    trace,                \* phases the call in progress went through
    local_confidence,     \* what extract_items_local returned as confidence
    ai_calls,             \* extract_items_gemini calls of this run
    learn_calls,          \* arguments of the learner calls of this run
    ocr_outcome,          \* what extract_text_from_image did
    ai_outcome,           \* what the AI service did
    results_produced,     \* results built by this run
    fault,                \* the failure the environment injected in this run
    results_for,          \* the image path and the fault of each entry of results
    last_call,            \* last call made on the API of a module
    \* ---- several ReceiptLearner instances on the same files
    history_file,         \* contents of learning_history.json
    writers,              \* each learner instance: its memory and its position
    \* ---- gemini_client and the tasks that call it
    now,                  \* time.time(), in ticks
    last_request_time,    \* gemini_client.last_request_time
    tasks,                \* each task's position in _make_request
    issued,               \* history: the times at which requests were posted
    \* ---- product_normalizer
    master_products,      \* the catalog, in insertion order
    learned_mappings      \* cleaned text (and shop) -> product_id

vars == <<GEMINI_AVAILABLE, learning_history, templates_file, shop_templates,
          processing_stats, pc, raw_text, shop_id, extracted_data, confidence,
          needs_fallback, gemini_data, gemini_confidence, final_data,
          processing_method, result, image_paths, results, trace,
          local_confidence, ai_calls, learn_calls, ocr_outcome, ai_outcome,
          results_produced, fault, results_for, last_call, image_path,
          batch_pc, history_file, writers, now, last_request_time, tasks,
          issued, master_products, learned_mappings>>

moduleVars == <<GEMINI_AVAILABLE, shop_templates>>
learnerVars == <<learning_history, templates_file>>
runVars == <<pc, raw_text, shop_id, extracted_data, confidence, needs_fallback,
             gemini_data, gemini_confidence, final_data, processing_method,
             result, trace, local_confidence, ai_calls, learn_calls,
             ocr_outcome, ai_outcome, results_produced, fault, image_path>>
batchVars == <<batch_pc, image_paths, results, results_for>>
concVars == <<history_file, writers>>
clientVars == <<now, last_request_time, tasks, issued>>
normalizerVars == <<master_products, learned_mappings>>
sharedVars == <<concVars, clientVars, normalizerVars>>

-----------------------------------------------------------------------------
(* Bounds of the model *)

MaxSamples == 4
MaxItems == 3
MaxAiItems == 1
MaxRuns == 2
MaxBatch == 3
MaxWords == 3
MaxTime == 6
MaxRequests == 3
MaxProducts == 3
MaxSynth == 3

-----------------------------------------------------------------------------
(* Values *)

None == 0 - 1
NoneStr == "None"
NoData == [absent |-> TRUE]

Get(d, k, default) == IF k \in DOMAIN d THEN d[k] ELSE default

\* Python truthiness of a number or None
Truthy(x) == x # None /\ x # 0

\* str.strip() on the strings of the model
Strip(s) ==
    CASE s = " " -> ""
      [] s = " \n " -> ""
      [] s = " Rice " -> "Rice"
      [] s = " AI Store " -> "AI Store"
      [] OTHER -> s

ConfScale == 600 * 100
Pct(p) == p * 600

RECURSIVE SumSeq(_)
SumSeq(s) == IF s = <<>> THEN 0 ELSE Head(s) + SumSeq(Tail(s))

SeqsUpTo(S, n) == UNION {[1..k -> S] : k \in 0..n}

-----------------------------------------------------------------------------
(* learning_engine.py: ReceiptLearner *)

min_learning_samples == 3
LEARN_MAX_LOCAL_CONFIDENCE == Pct(80)
LEARNED_CONFIDENCE_THRESHOLD == Pct(70)

\* seeded fault: the samples of all shops are counted
ShopSamples_AnyShop(history, shop) == history

\* [s for s in self.learning_history if s['shop_id'] == shop_id]
ShopSamples(history, shop) == SelectSeq(history, LAMBDA s : s.shop_id = shop)

_should_generate_template(history, shop) ==
    Len(ShopSamples(history, shop)) >= min_learning_samples

\* max(set(currencies), key=currencies.count); the order among equally
\* frequent currencies is that of Python's set iteration
_detect_currency_from_samples(gemini_results) ==
    LET cur(i) == Get(gemini_results[i], "currency", "CDF")
        all == {cur(i) : i \in 1..Len(gemini_results)}
        count(c) == Cardinality({i \in 1..Len(gemini_results) : cur(i) = c})
    IN IF all = {} THEN "CDF"
       ELSE CHOOSE c \in all : \A d \in all : count(d) <= count(c)

\* the fixed menu of patterns _synthesize_template_from_samples collects
TOTAL_PATTERNS ==
    <<"TOTAL[:\\s]*([0-9,\\\\.]+)", "MONTANT[:\\s]*([0-9,\\\\.]+)",
      "SOMME[:\\s]*([0-9,\\\\.]+)">>
SUBTOTAL_PATTERNS ==
    <<"SOUS.?TOTAL[:\\s]*([0-9,\\\\.]+)", "SUBTOTAL[:\\s]*([0-9,\\\\.]+)">>
TAX_PATTERNS == <<"TVA[:\\s]*([0-9,\\\\.]+)", "TAXE[:\\s]*([0-9,\\\\.]+)">>
DATE_PATTERNS ==
    <<"(\\d{1,2}[/-]\\d{1,2}[/-]\\d{2,4})", "(\\d{2}/\\d{2}/\\d{4})">>

\* re.escape on the item names of the model
re_escape(name) ==
    IF name = "Palm Oil" THEN "Palm\\ Oil" ELSE name

\* _create_item_regex_pattern: only the escaped name reaches the result
_create_item_regex_pattern(item_name) ==
    "(" \o re_escape(Strip(item_name))
        \o ".*?)\\s+(\\d+(?:\\.\\d+)?)?\\s*[xX*]\\s*([0-9,\\.]+)"

\* result.get(key) is truthy, for an amount and for a date
HasAmount(d, key) == Truthy(Get(d, key, None))
HasDate(d, key) == Get(d, key, NoneStr) \notin {NoneStr, ""}

RECURSIVE Flatten(_)
Flatten(ss) == IF ss = <<>> THEN <<>> ELSE Head(ss) \o Flatten(Tail(ss))

\* the patterns one field collects over the results, in order
CollectedPatterns(gemini_results, key, menu) ==
    Flatten([i \in 1..Len(gemini_results) |->
                IF (IF key = "date" THEN HasDate(gemini_results[i], key)
                    ELSE HasAmount(gemini_results[i], key))
                THEN menu ELSE <<>>])

\* the item patterns of the first three named items of every result
CollectedItemPatterns(gemini_results) ==
    Flatten([i \in 1..Len(gemini_results) |->
        LET items == Get(gemini_results[i], "items", <<>>)
            first == SubSeq(items, 1, IF Len(items) < 3 THEN Len(items) ELSE 3)
            named == SelectSeq(first, LAMBDA item : Get(item, "name", "") # "")
        IN [j \in 1..Len(named) |-> _create_item_regex_pattern(named[j].name)]])

\* max(pattern_counts, key=pattern_counts.get): the most frequent pattern,
\* the first seen among equally frequent ones
_select_best_pattern(patterns) ==
    LET count(q) == Cardinality({i \in 1..Len(patterns) : patterns[i] = q})
        best == CHOOSE i \in 1..Len(patterns) :
                   /\ \A j \in 1..Len(patterns) :
                         count(patterns[j]) <= count(patterns[i])
                   /\ \A j \in 1..(i - 1) :
                         count(patterns[j]) < count(patterns[i])
    IN IF patterns = <<>> THEN "" ELSE patterns[best]

PatternKeys ==
    {"item_pattern", "total_pattern", "subtotal_pattern", "tax_pattern",
     "date_pattern"}

\* template = {k: v for k, v in template.items() if v is not None}
RemoveNone(template) ==
    [k \in {k \in DOMAIN template :
               k \in PatternKeys => template[k] # NoneStr} |-> template[k]]

_synthesize_template_from_samples(samples) ==
    LET gemini_results == [i \in 1..Len(samples) |-> samples[i].gemini_data]
        item_patterns == CollectedItemPatterns(gemini_results)
        total_patterns ==
            CollectedPatterns(gemini_results, "total", TOTAL_PATTERNS)
        subtotal_patterns ==
            CollectedPatterns(gemini_results, "subtotal", SUBTOTAL_PATTERNS)
        tax_patterns == CollectedPatterns(gemini_results, "tax", TAX_PATTERNS)
        date_patterns ==
            CollectedPatterns(gemini_results, "date", DATE_PATTERNS)
        best(patterns, default) ==
            IF patterns # <<>> THEN _select_best_pattern(patterns) ELSE default
    IN RemoveNone(
        [item_pattern |-> best(item_patterns, NoneStr),
         total_pattern |-> best(total_patterns, TOTAL_PATTERNS[1]),
         subtotal_pattern |-> best(subtotal_patterns, NoneStr),
         tax_pattern |-> best(tax_patterns, NoneStr),
         date_pattern |-> best(date_patterns, DATE_PATTERNS[1]),
         currency |-> _detect_currency_from_samples(gemini_results),
         learned_from_samples |-> Len(samples),
         confidence_threshold |-> LEARNED_CONFIDENCE_THRESHOLD])

\* seeded fault: the file is written with the new template alone
StoreTemplate_OnlyNew(templates, shop, template) ==
    [s \in {shop} |-> template]

\* existing_templates[shop_id] = template
StoreTemplate(templates, shop, template) ==
    [s \in DOMAIN templates \cup {shop} |->
        IF s = shop THEN template ELSE templates[s]]

_generate_shop_template(history, templates, shop) ==
    LET shop_samples == ShopSamples(history, shop)
    IN IF Len(shop_samples) < min_learning_samples
       THEN [ok |-> FALSE, templates |-> templates]
       ELSE [ok |-> TRUE,
             templates |-> StoreTemplate(templates, shop,
                              _synthesize_template_from_samples(shop_samples))]

LearningSample(shop, text, gemini, conf) ==
    [shop_id |-> shop, raw_text |-> text, gemini_data |-> gemini,
     local_confidence |-> conf]

\* seeded fault: a local confidence of exactly 0.8 is accepted
LearnRejects_Above(gemini, conf) ==
    \/ conf > LEARN_MAX_LOCAL_CONFIDENCE
    \/ ~Get(gemini, "success", FALSE)

\* The local_confidence >= 0.8 test and the success test
LearnRejects(gemini, conf) ==
    \/ conf >= LEARN_MAX_LOCAL_CONFIDENCE
    \/ ~Get(gemini, "success", FALSE)

\* seeded fault: the new sample is put first
AddToHistory_First(history, sample) == <<sample>> \o history

\* self.learning_history.append(learning_sample)
AddToHistory(history, sample) == Append(history, sample)

\* Returns the return value and the learner's state after the call
learn_from_gemini_correction(history, templates, shop, text, gemini, conf) ==
    IF LearnRejects(gemini, conf)
    THEN [ret |-> FALSE, history |-> history, templates |-> templates]
    ELSE LET h == AddToHistory(history, LearningSample(shop, text, gemini, conf))
         IN IF _should_generate_template(h, shop)
            THEN LET g == _generate_shop_template(h, templates, shop)
                 IN [ret |-> g.ok, history |-> h, templates |-> g.templates]
            ELSE [ret |-> FALSE, history |-> h, templates |-> templates]

-----------------------------------------------------------------------------
(* config.py *)

MIN_CONFIDENCE_THRESHOLD == Pct(85)
MIN_ITEMS_THRESHOLD == 3

-----------------------------------------------------------------------------
(* extractor.py: ReceiptExtractor *)

\* A text is the sequence of its words, as separated by single spaces.  Every
\* word of the model is made of word characters, with at most a sign before
\* and a colon or a hyphenated suffix after, so that a keyword matches as a
\* whole word (\b...\b) exactly where its words are consecutive words of
\* the text.
Words ==
    {"Shoprite", "SUPERMARKET", "Carrefour", "TOTAL", "SUBTOTAL", "TEL:",
     "243", "+243812345678", "Kinshasa-Gombe", "Rice"}

\* str.upper() on the words of the model
Upper(w) ==
    CASE w = "Shoprite" -> "SHOPRITE"
      [] w = "Carrefour" -> "CARREFOUR"
      [] w = "Kinshasa-Gombe" -> "KINSHASA-GOMBE"
      [] w = "Rice" -> "RICE"
      [] OTHER -> w

\* SHOP_RULES, in the order of the dict (E' is the E acute of the source)
SHOP_RULES ==
    << [shop |-> "ShopA",
        keywords |-> << <<"SHOP", "A", "INC">>, <<"AVENUE", "123">>,
                        <<"SHOP", "A", "SUPERMARKET">> >>],
       [shop |-> "ShopB",
        keywords |-> << <<"GRAND", "MARCHE'">>, <<"TEL:", "243">>,
                        <<"GRAND", "MARCHE">>, <<"GRAND", "MARKET">> >>],
       [shop |-> "ShopC",
        keywords |-> << <<"CARREFOUR">>, <<"CARREFOUR", "MARKET">>,
                        <<"CARREFOUR", "EXPRESS">> >>],
       [shop |-> "ShopD",
        keywords |-> << <<"SHOPRITE">>, <<"SHOPRITE", "SUPERMARKET">>,
                        <<"SHOPRITE", "STORES">> >>],
       [shop |-> "KinMart",
        keywords |-> << <<"KINMART">>, <<"KIN", "MART">>,
                        <<"KINMART", "SUPERMARKET">>,
                        <<"KINMART", "EXPRESS">> >>],
       [shop |-> "CongoMarket",
        keywords |-> << <<"CONGO", "MARKET">>, <<"CONGO", "MARCHE'">>,
                        <<"CONGO", "SUPERMARKET">> >>],
       [shop |-> "TotalEnergies",
        keywords |-> << <<"TOTAL", "ENERGIES">>, <<"TOTAL">>,
                        <<"STATION", "TOTAL">>, <<"TOTAL", "STATION">> >>],
       [shop |-> "Engen",
        keywords |-> << <<"ENGEN">>, <<"ENGEN", "STATION">>,
                        <<"ENGEN", "SERVICE", "STATION">> >>] >>

\* re.compile(r'\b' + re.escape(keyword.upper()) + r'\b').search(text_upper)
PatternSearch(keyword, text_upper) ==
    \E i \in 1..(Len(text_upper) - Len(keyword) + 1) :
        SubSeq(text_upper, i, i + Len(keyword) - 1) = keyword

KeywordsMatch(keywords, text_upper) ==
    \E k \in 1..Len(keywords) : PatternSearch(keywords[k], text_upper)

\* seeded fault: the loop over SHOP_RULES does not stop at the first match
RECURSIVE FirstShop_LastMatch(_, _)
FirstShop_LastMatch(rules, text_upper) ==
    IF rules = <<>> THEN NoneStr
    ELSE LET later == FirstShop_LastMatch(Tail(rules), text_upper)
         IN IF later # NoneStr THEN later
            ELSE IF KeywordsMatch(Head(rules).keywords, text_upper)
            THEN Head(rules).shop
            ELSE NoneStr

\* the loop over SHOP_RULES.items(); NoneStr when it ends without a return
RECURSIVE FirstShop(_, _)
FirstShop(rules, text_upper) ==
    IF rules = <<>> THEN NoneStr
    ELSE IF KeywordsMatch(Head(rules).keywords, text_upper)
    THEN Head(rules).shop
    ELSE FirstShop(Tail(rules), text_upper)

\* phone_patterns: TEL / PHONE / TE'L, then the country code 243 and nine
\* digits; on the words of the model, "TEL:" followed by the number
PhoneMatches(text_upper) ==
    \E i \in 1..(Len(text_upper) - 1) :
        /\ text_upper[i] \in {"TEL:", "PHONE:"}
        /\ text_upper[i + 1] \in {"+243812345678", "243812345678"}

\* city in text_upper, for a city of congolese_cities: a substring test
CityMatches(text_upper) ==
    \E i \in 1..Len(text_upper) :
        text_upper[i] \in {"KINSHASA", "KINSHASA-GOMBE", "GOMA", "LUBUMBASHI"}

identify_shop(text) ==
    IF text = <<>> THEN "Unknown"
    ELSE LET text_upper == [i \in 1..Len(text) |-> Upper(text[i])]
             shop == FirstShop(SHOP_RULES, text_upper)
         IN IF shop # NoneStr THEN shop
            ELSE IF PhoneMatches(text_upper) THEN "LocalShop"
            ELSE IF CityMatches(text_upper) THEN "LocalShop"
            ELSE "Unknown"

\* Sign of (score the floating-point code computes) - (the double nearest to
\* the exact sum), for shop credit m, n items of which k complete, total
\* credit t: 0.3 + 0.15 + 0.2 + 0.2 evaluates to 0.8499999999999999.
FloatRounding(m, n, k, t) ==
    LET c == <<IF m THEN 1 ELSE 0, n, k, IF t THEN 1 ELSE 0>>
    IN IF c \in {<<1,1,0,0>>, <<1,1,0,1>>, <<1,1,1,0>>, <<1,1,1,1>>,
                 <<0,2,1,1>>, <<1,2,0,0>>, <<1,2,0,1>>, <<1,2,1,0>>,
                 <<1,2,1,1>>, <<1,2,2,0>>, <<1,2,2,1>>, <<0,5,1,0>>,
                 <<1,5,2,0>>}
       THEN 0 - 1
       ELSE IF c \in {<<1,4,1,1>>, <<1,4,3,1>>, <<0,5,2,1>>, <<1,5,1,1>>,
                      <<1,5,2,1>>, <<1,5,4,1>>}
       THEN 1
       ELSE 0

ItemComplete(item) == Get(item, "name", "") # "" /\ Get(item, "price", 0) > 0

\* seeded fault: the credit is given whatever the merchant
ShopCredit_Always(merchant) == Pct(30)

\* 0.3 when the shop is identified
ShopCredit(merchant) == IF merchant # "Unknown" THEN Pct(30) ELSE 0

ItemCountCredit(n) ==
    IF n >= MIN_ITEMS_THRESHOLD THEN Pct(30) ELSE IF n > 0 THEN Pct(15) ELSE 0

\* seeded fault: the test on the total is inverted
TotalCredit_WhenAbsent(total) == IF total > 0 THEN 0 ELSE Pct(20)

TotalCredit(total) == IF total > 0 THEN Pct(20) ELSE 0

\* 0.2 * (complete_items / len(items))
CompletenessCredit(items) ==
    LET n == Len(items)
        k == Cardinality({i \in 1..n : ItemComplete(items[i])})
    IN IF n > 0 THEN (Pct(20) * k) \div n ELSE 0

calculate_confidence_score(data) ==
    LET items == Get(data, "items", <<>>)
        n == Len(items)
        k == Cardinality({i \in 1..n : ItemComplete(items[i])})
        m == Get(data, "merchant", NoneStr) # "Unknown"
        t == Get(data, "total", 0) > 0
        score == ShopCredit(Get(data, "merchant", NoneStr))
                 + ItemCountCredit(n)
                 + TotalCredit(Get(data, "total", 0))
                 + CompletenessCredit(items)
    IN score + FloatRounding(m, n, k, t)

\* What the patterns find in a text: found.items, found.total
_extract_generic(found) ==
    [merchant |-> "Unknown", date |-> NoneStr, items |-> found.items,
     subtotal |-> None, tax |-> None, total |-> found.total,
     currency |-> "CDF"]

\* a pattern of a template that re cannot apply: re.findall / re.search
\* raises on it
InvalidPattern == "(invalid"
PatternFails(pattern) == pattern = InvalidPattern

\* the findall is inside a try: an error leaves the items empty
_extract_items_with_template(template, found) ==
    LET item_pattern == Get(template, "item_pattern", NoneStr)
    IN IF item_pattern = NoneStr \/ item_pattern = "" THEN <<>>
       ELSE IF PatternFails(item_pattern) THEN <<>>
       ELSE found.items

\* _extract_total, _extract_subtotal, _extract_tax, _extract_date: the search
\* is not inside a try
ExtractField(template, key, value) ==
    IF PatternFails(Get(template, key, "default"))
    THEN [raised |-> TRUE]
    ELSE [raised |-> FALSE, value |-> value]

_extract_total(template, found) ==
    ExtractField(template, "total_pattern", found.total)

_extract_subtotal(template, found) ==
    ExtractField(template, "subtotal_pattern", found.subtotal)

_extract_tax(template, found) ==
    ExtractField(template, "tax_pattern", found.tax)

_extract_date(template, found) ==
    ExtractField(template, "date_pattern", found.date)

\* the body of the try block; raised when one of the calls raises
ExtractWithTemplate(shop, template, found) ==
    LET items == _extract_items_with_template(template, found)
        total == _extract_total(template, found)
        subtotal == _extract_subtotal(template, found)
        tax == _extract_tax(template, found)
        date == _extract_date(template, found)
    IN IF total.raised \/ subtotal.raised \/ tax.raised \/ date.raised
       THEN [raised |-> TRUE]
       ELSE [raised |-> FALSE,
             value |-> [merchant |-> shop, date |-> date.value,
                        items |-> items, subtotal |-> subtotal.value,
                        tax |-> tax.value, total |-> total.value,
                        currency |-> "CDF"]]

\* seeded fault: a failed template application returns an empty result
\* instead of the generic extraction
ReceiptExtractor_extract_items_local_NoFallback(templates, shop, found) ==
    IF shop \notin DOMAIN templates
    THEN _extract_generic(found)
    ELSE LET r == ExtractWithTemplate(shop, templates[shop], found)
         IN IF r.raised
            THEN [merchant |-> shop, date |-> NoneStr, items |-> <<>>,
                  subtotal |-> None, tax |-> None, total |-> 0,
                  currency |-> "CDF"]
            ELSE r.value

ReceiptExtractor_extract_items_local(templates, shop, found) ==
    IF shop \notin DOMAIN templates
    THEN _extract_generic(found)
    ELSE LET r == ExtractWithTemplate(shop, templates[shop], found)
         IN IF r.raised THEN _extract_generic(found) ELSE r.value

\* the module-level convenience function: (data, confidence)
extract_items_local(templates, shop, found) ==
    LET data == ReceiptExtractor_extract_items_local(templates, shop, found)
    IN <<data, calculate_confidence_score(data)>>

-----------------------------------------------------------------------------
(* gemini_api.py *)

GEMINI_DEFAULT_CONFIDENCE == Pct(90)

\* self.min_request_interval = 1.0, in ticks of half a second
min_request_interval == 2

\* time.time() when gemini_client is built: far from the 0 that
\* last_request_time starts with
StartTime == min_request_interval

NormalizeGeminiItem(item) ==
    [name |-> Strip(Get(item, "name", "")),
     price |-> IF Truthy(Get(item, "price", None)) THEN item.price ELSE 0,
     quantity |-> IF Truthy(Get(item, "quantity", None)) THEN item.quantity ELSE 1]

GeminiItemKept(item) == item.name # "" /\ item.price > 0

RECURSIVE NormalizeGeminiItems(_)
NormalizeGeminiItems(raw) ==
    IF raw = <<>> THEN <<>>
    ELSE LET item == NormalizeGeminiItem(Head(raw))
             rest == NormalizeGeminiItems(Tail(raw))
         IN IF GeminiItemKept(item) THEN <<item>> \o rest ELSE rest

_normalize_extracted_data(data) ==
    LET items == NormalizeGeminiItems(Get(data, "items", <<>>))
        total == Get(data, "total", None)
    IN [success |-> Get(data, "success", TRUE),
        merchant |-> Strip(Get(data, "merchant", "")),
        date |-> Get(data, "date", NoneStr),
        time |-> Get(data, "time", NoneStr),
        currency |-> Get(data, "currency", "CDF"),
        items |-> items,
        subtotal |-> Get(data, "subtotal", None),
        tax |-> Get(data, "tax", None),
        total |-> IF ~Truthy(total) /\ items # <<>>
                  THEN SumSeq([i \in 1..Len(items) |->
                                  items[i].price * items[i].quantity])
                  ELSE total,
        confidence |-> GEMINI_DEFAULT_CONFIDENCE]

GeminiFailure(error) ==
    [success |-> FALSE, error |-> error, items |-> <<>>, total |-> 0,
     merchant |-> "Unknown"]

\* outcome: what the request to the service did; every failure is caught
\* inside extract_items_gemini
extract_items_gemini(outcome) ==
    IF outcome.kind = "ok"
    THEN LET r == _normalize_extracted_data(outcome.data)
         IN <<r, Get(r, "confidence", GEMINI_DEFAULT_CONFIDENCE)>>
    ELSE <<GeminiFailure(outcome.kind), 0>>

-----------------------------------------------------------------------------
(* main.py: ReceiptProcessor *)

CleanItem(item) ==
    LET name == Strip(Get(item, "name", ""))
        qty == Get(item, "qty", 1)
        price == Get(item, "price", 0)
        total == Get(item, "total", 0)
        diff == total - qty * price
    IN [name |-> name, qty |-> qty, price |-> price,
        total |-> IF total = 0 \/ (IF diff < 0 THEN 0 - diff ELSE diff) > 1
                  THEN qty * price ELSE total]

\* seeded fault: an item is kept on its name alone
CleanItemKept_NameOnly(item) == item.name # ""

CleanItemKept(item) == item.name # "" /\ item.price > 0

RECURSIVE CleanItems(_)
CleanItems(items) ==
    IF items = <<>> THEN <<>>
    ELSE LET item == CleanItem(Head(items))
             rest == CleanItems(Tail(items))
         IN IF CleanItemKept(item) THEN <<item>> \o rest ELSE rest

\* seeded fault: the total is recomputed whatever the incoming total
NormalizedTotal_AlwaysSum(total, cleaned_items) ==
    SumSeq([i \in 1..Len(cleaned_items) |-> cleaned_items[i].total])

\* the total of the normalised result
NormalizedTotal(total, cleaned_items) ==
    IF total = 0 /\ cleaned_items # <<>>
    THEN SumSeq([i \in 1..Len(cleaned_items) |-> cleaned_items[i].total])
    ELSE total

_normalize_output(data, method, conf, text) ==
    LET cleaned_items == CleanItems(Get(data, "items", <<>>))
        total == Get(data, "total", 0)
    IN [success |-> TRUE,
        merchant |-> Get(data, "merchant", "Unknown"),
        date |-> Get(data, "date", NoneStr),
        items |-> cleaned_items,
        subtotal |-> Get(data, "subtotal", None),
        tax |-> Get(data, "tax", None),
        total |-> NormalizedTotal(total, cleaned_items),
        currency |-> Get(data, "currency", "CDF"),
        processing_method |-> method,
        confidence |-> conf,
        rawText |-> text]

ErrorResult(error) ==
    [success |-> FALSE, error |-> error, processing_method |-> "failed",
     confidence |-> 0]

\* seeded fault: the learner's 0.8 used as the acceptance threshold
NeedsFallback_WrongThreshold(conf, shop) ==
    conf < LEARN_MAX_LOCAL_CONFIDENCE \/ shop = "Unknown"

\* needs_fallback
NeedsFallback(conf, shop) ==
    conf < MIN_CONFIDENCE_THRESHOLD \/ shop = "Unknown"

\* seeded fault: any returned dict counts as a success
GeminiSucceeded_AnyData(data) == data # NoData

\* if gemini_data and gemini_data.get("success", False)
GeminiSucceeded(data) == Get(data, "success", FALSE)

\* seeded fault: the empty-text check is missing
NoText_Never(text) == FALSE

\* if not raw_text.strip()
NoText(text) == Strip(text) = ""

\* The fourth argument of the learn_from_gemini_correction call at main.py
\* lines 102-104: the variable confidence, assigned gemini_confidence at
\* line 98
LearnConfidenceArgument(conf_after_line_98) == conf_after_line_98

\* final_data after a successful fallback
FinalDataAfterFallback(local, gemini) == gemini

-----------------------------------------------------------------------------
(* Inputs of the model *)

Shops == {"ShopA", "LocalShop", "Unknown"}

\* a template of shop_templates.json that was not learned
CuratedTemplate ==
    [item_pattern |-> "curated", total_pattern |-> "curated", currency |-> "CDF"]

CuratedTemplates == [s \in {"ShopA"} |-> CuratedTemplate]

RawAiItems ==
    {[name |-> " Rice ", price |-> 500, quantity |-> 3],
     [name |-> "Soap", price |-> 0, quantity |-> 1]}

RawAiData(success, total, items) ==
    [success |-> success, merchant |-> " AI Store ", date |-> "2024-01-15",
     time |-> "14:30", currency |-> "USD", items |-> items,
     subtotal |-> 2000, tax |-> 200, total |-> total]

\* a response that does not say whether it succeeded
RawAiDataNoFlag ==
    [merchant |-> " AI Store ", date |-> "2024-01-15", currency |-> "USD",
     items |-> <<[name |-> " Rice ", price |-> 500, quantity |-> 3]>>,
     total |-> 2200]

\* a response that states a confidence of its own
RawAiDataWithConfidence ==
    [success |-> TRUE, merchant |-> " AI Store ", date |-> "2024-01-15",
     currency |-> "USD",
     items |-> <<[name |-> " Rice ", price |-> 500, quantity |-> 3]>>,
     total |-> 2200, confidence |-> Pct(50)]

\* Corrections handed to the learner
LearnResults ==
    {[success |-> TRUE, merchant |-> "AI Store", currency |-> "CDF",
      items |-> <<[name |-> "Rice", price |-> 500, quantity |-> 3]>>,
      total |-> 2200],
     GeminiFailure("timeout"),
     \* the correction test_learning.py passes: no success key
     [items |-> <<[name |-> "Rice", price |-> 500, quantity |-> 3]>>,
      total |-> 2200, shop |-> "XYZ Supermarket"]}

LearnShops == {"ShopA", "LocalShop"}
LearnConfs == {Pct(40), Pct(80), Pct(90)}

\* the document-processing tasks that share gemini_client
Tasks == {"t1", "t2"}

IdleTask == [pc |-> "idle", wake |-> 0]

\* the learner instances that share the two files, e.g. one per service
\* process
Writers == {"w1", "w2"}

\* an instance that is not constructed yet
NoWriter ==
    [pc |-> "absent", learning_history |-> <<>>, shop_id |-> "",
     template |-> NoData, existing_templates |-> NoData,
     accepted |-> <<>>, seen |-> <<>>]

NoCall ==
    [op |-> "none", shop_id |-> "", local_confidence |-> 0,
     gemini_result |-> NoData, ret |-> FALSE]

-----------------------------------------------------------------------------
(* product_normalizer: the catalog, the learned mappings and the cascade   *)
(* of normalize, as the specification of the normalizer states them; the   *)
(* names are those its tests and its command line use                      *)

\* raw item names a caller passes
RawNames ==
    {"Plantain", "plantain", "BNN PLTN", "plantan", "Pomme de terre",
     "Special Kinshasa Banana", "!!!"}

\* clean_text: lowercase, strip accents and punctuation, remove the noise
\* words, collapse whitespace
clean_text(raw) ==
    CASE raw \in {"Plantain", "plantain"} -> "plantain"
      [] raw = "BNN PLTN" -> "bnn pltn"
      [] raw = "plantan" -> "plantan"
      [] raw = "Pomme de terre" -> "pomme terre"
      [] raw = "Special Kinshasa Banana" -> "special kinshasa banana"
      [] OTHER -> ""

CleanedNames == {clean_text(raw) : raw \in RawNames} \ {""}

\* expand_abbreviations: the curated abbreviation table
expand_abbreviations(cleaned) ==
    IF cleaned = "bnn pltn" THEN "banane plantain" ELSE cleaned

\* the cross-language pivot: the text translated to the other language
translate_to_pivot(cleaned) ==
    IF cleaned = "pomme terre" THEN "potato" ELSE cleaned

\* the shops a caller names, None for a call without shop_id
NormShops == {"shop_123"}

\* the n-th product_id of the catalog
ProductId(n) ==
    CASE n = 1 -> "PROD_001"
      [] n = 2 -> "PROD_002"
      [] n = 3 -> "PROD_003"
      [] n = 4 -> "PROD_004"
      [] OTHER -> "PROD_005"

\* the catalog at load: one golden record
InitialCatalog ==
    <<[product_id |-> "PROD_001", normalized_name |-> "plantain",
       aliases |-> {"banane plantain"}]>>

\* names given to add_product
AddNames == {"potato", "special kinshasa banana"}

\* product ids given to learn_mapping: one the catalog holds once a product
\* is added and one it never holds
LearnIds == {"PROD_002", "PROD_999"}

MappingKeys == [shop_id : NormShops \cup {NoneStr}, text : CleanedNames]

\* no mapping learned yet
NoMappings == [k \in MappingKeys |-> NoneStr]

\* _get_product_by_id: the catalog entry, or None
_get_product_by_id(catalog, product_id) ==
    IF \E i \in 1..Len(catalog) : catalog[i].product_id = product_id
    THEN LET i == CHOOSE i \in 1..Len(catalog) :
                      catalog[i].product_id = product_id
         IN catalog[i]
    ELSE NoData

\* product_index: a normalized name or alias -> product_id, None if absent
product_index(catalog, text) ==
    LET hits == {i \in 1..Len(catalog) :
                    \/ catalog[i].normalized_name = text
                    \/ text \in catalog[i].aliases}
    IN IF hits = {} THEN NoneStr
       ELSE catalog[CHOOSE i \in hits : \A j \in hits : i <= j].product_id

\* add_product: a new golden record with a new id, which is returned
add_product(catalog, name) ==
    LET new_id == ProductId(Len(catalog) + 1)
    IN [catalog |-> Append(catalog,
                           [product_id |-> new_id, normalized_name |-> name,
                            aliases |-> {}]),
        ret |-> new_id]

\* learn_mapping: the LearnedMapping is inserted after cleaning the input,
\* with the shop scope when one is given; the lookup without a shop finds it
\* too
learn_mapping(mappings, raw_name, product_id, shop) ==
    LET cleaned == clean_text(raw_name)
    IN IF cleaned = ""
       THEN [mappings |-> mappings, ret |-> FALSE]
       ELSE [mappings |->
                [k \in MappingKeys |->
                    IF k.text = cleaned /\ k.shop_id \in {NoneStr, shop}
                    THEN product_id ELSE mappings[k]],
             ret |-> TRUE]

\* stage 2: the mapping scoped to the shop first, then the global one
LookupLearned(mappings, cleaned, shop) ==
    IF shop # NoneStr /\ mappings[[shop_id |-> shop, text |-> cleaned]] # NoneStr
    THEN mappings[[shop_id |-> shop, text |-> cleaned]]
    ELSE mappings[[shop_id |-> NoneStr, text |-> cleaned]]

\* the global acceptance threshold, 0.85
ACCEPTANCE_THRESHOLD == Pct(85)

\* the minimal floor under which a fuzzy or semantic candidate is no match
MINIMAL_FLOOR == Pct(60)

\* confidence of a match found after abbreviation expansion, and after the
\* cross-language pivot
ABBREVIATION_CONFIDENCE == Pct(95)
TRANSLATION_CONFIDENCE == Pct(90)

\* seeded fault: only a missing product asks for a review
NeedsReview_NullOnly(product_id, conf) ==
    product_id = NoneStr

\* needs_review, computed uniformly
NeedsReview(product_id, conf) ==
    product_id = NoneStr \/ conf < ACCEPTANCE_THRESHOLD

NormalizationResult(catalog, product_id, cleaned, conf, method) ==
    LET product == _get_product_by_id(catalog, product_id)
    IN [product_id |-> product_id,
        normalized_name |-> IF product = NoData THEN cleaned
                            ELSE product.normalized_name,
        confidence |-> conf,
        match_method |-> method,
        needs_review |-> NeedsReview(product_id, conf)]

\* what the similarity functions find for one text: the best candidate of
\* the catalog, its combined similarity and its semantic similarity
FuzzyScores == {Pct(50), Pct(80), Pct(90)}
SemanticScores == {0, Pct(70)}
Similarities(catalog) ==
    [candidate : 1..Len(catalog), fuzzy : FuzzyScores,
     semantic : SemanticScores]

\* stages 3 to 8 of normalize
CatalogStages(catalog, cleaned, sim) ==
    LET best == catalog[sim.candidate].product_id
    IN IF product_index(catalog, cleaned) # NoneStr
       THEN NormalizationResult(catalog, product_index(catalog, cleaned),
                                cleaned, Pct(100), "exact")
       ELSE IF product_index(catalog, expand_abbreviations(cleaned)) # NoneStr
       THEN NormalizationResult(catalog,
                product_index(catalog, expand_abbreviations(cleaned)),
                cleaned, ABBREVIATION_CONFIDENCE, "abbreviation")
       ELSE IF product_index(catalog, translate_to_pivot(cleaned)) # NoneStr
       THEN NormalizationResult(catalog,
                product_index(catalog, translate_to_pivot(cleaned)),
                cleaned, TRANSLATION_CONFIDENCE, "translation")
       ELSE IF sim.fuzzy > MINIMAL_FLOOR
       THEN NormalizationResult(catalog, best, cleaned, sim.fuzzy, "fuzzy")
       ELSE IF sim.semantic > MINIMAL_FLOOR
       THEN NormalizationResult(catalog, best, cleaned, sim.semantic,
                                "semantic")
       ELSE NormalizationResult(catalog, NoneStr, cleaned,
                IF sim.fuzzy > sim.semantic THEN sim.fuzzy ELSE sim.semantic,
                "none")

\* seeded fault: the catalog is consulted before the learned mappings
normalize_CatalogFirst(catalog, mappings, raw_name, shop, sim) ==
    LET cleaned == clean_text(raw_name)
        learned == IF cleaned = "" THEN NoneStr
                   ELSE LookupLearned(mappings, cleaned, shop)
    IN IF cleaned = ""
       THEN NormalizationResult(catalog, NoneStr, cleaned, 0, "none")
       ELSE IF product_index(catalog, cleaned) # NoneStr \/ learned = NoneStr
       THEN CatalogStages(catalog, cleaned, sim)
       ELSE NormalizationResult(catalog, learned, cleaned, Pct(100),
                                "learned")

\* normalize(raw_text, shop_id): the first stage that hits gives the result
normalize(catalog, mappings, raw_name, shop, sim) ==
    LET cleaned == clean_text(raw_name)
        learned == IF cleaned = "" THEN NoneStr
                   ELSE LookupLearned(mappings, cleaned, shop)
    IN IF cleaned = ""
       THEN NormalizationResult(catalog, NoneStr, cleaned, 0, "none")
       ELSE IF learned # NoneStr
       THEN NormalizationResult(catalog, learned, cleaned, Pct(100),
                                "learned")
       ELSE CatalogStages(catalog, cleaned, sim)

-----------------------------------------------------------------------------
(* Initial state *)

RunIdle ==
    /\ pc = "Idle"
    /\ raw_text = ""
    /\ shop_id = ""
    /\ extracted_data = NoData
    /\ confidence = 0
    /\ needs_fallback = FALSE
    /\ gemini_data = NoData
    /\ gemini_confidence = 0
    /\ final_data = NoData
    /\ processing_method = ""
    /\ result = NoData
    /\ trace = <<>>
    /\ local_confidence = 0
    /\ ai_calls = 0
    /\ learn_calls = <<>>
    /\ ocr_outcome = NoData
    /\ ai_outcome = NoData
    /\ results_produced = 0
    /\ fault = "none"
    /\ image_path = ""

NewStats ==
    [total_processed |-> 0, local_success |-> 0, gemini_fallback |-> 0,
     failed |-> 0]

Init ==
    /\ GEMINI_AVAILABLE \in BOOLEAN
    /\ learning_history = <<>>
    /\ templates_file = CuratedTemplates
    /\ shop_templates = templates_file
    /\ processing_stats = NewStats
    /\ RunIdle
    /\ batch_pc = "Idle"
    /\ image_paths = <<>>
    /\ results = <<>>
    /\ results_for = <<>>
    /\ last_call = NoCall
    /\ history_file = <<>>
    /\ writers = [w \in Writers |-> NoWriter]
    /\ now = StartTime
    /\ last_request_time = 0
    /\ tasks = [t \in Tasks |-> IdleTask]
    /\ issued = <<>>
    /\ master_products = InitialCatalog
    /\ learned_mappings = NoMappings

-----------------------------------------------------------------------------
(* The learner's API, called directly (as test_learning.py does) *)

LearnCallOn(shops, confs, corrections) ==
    \E shop \in shops, conf \in confs, g \in corrections :
        LET r == learn_from_gemini_correction(learning_history, templates_file,
                                              shop, "receipt text", g, conf)
        IN /\ Len(r.history) <= MaxSamples
           /\ learning_history' = r.history
           /\ templates_file' = r.templates
           /\ last_call' = [op |-> "learn", shop_id |-> shop,
                            local_confidence |-> conf, gemini_result |-> g,
                            ret |-> r.ret]
           /\ UNCHANGED <<moduleVars, sharedVars, processing_stats, runVars,
                          batchVars>>

LearnCall == LearnCallOn(LearnShops, LearnConfs, LearnResults)

\* reset_learning
ResetLearning ==
    /\ learning_history' = <<>>
    /\ last_call' = [NoCall EXCEPT !.op = "reset"]
    /\ UNCHANGED <<templates_file, moduleVars, sharedVars, processing_stats,
                   runVars, batchVars>>

LearnNext == LearnCall \/ ResetLearning

LearnInit == Init /\ GEMINI_AVAILABLE

LearnSpec == LearnInit /\ [][LearnNext]_vars

-----------------------------------------------------------------------------
(* Inputs of a process_receipt call *)

\* The images of the model and what the OCR engines make of each
Files == {"unreadable.jpg", "empty.jpg", "blank.jpg", "receipt.jpg"}
WhitespaceOnly == {"", " ", " \n "}

\* local_ocr.py: extract_text_from_image raises when both engines fail
OcrOf(path) ==
    CASE path = "unreadable.jpg" -> [raised |-> TRUE, text |-> ""]
      [] path = "empty.jpg" -> [raised |-> FALSE, text |-> ""]
      [] path = "blank.jpg" -> [raised |-> FALSE, text |-> " \n "]
      [] path = "receipt.jpg" -> [raised |-> FALSE, text |-> "receipt text"]
      [] OTHER -> [raised |-> FALSE, text |-> "other text"]

\* items as the extractor builds them, with what product_normalizer.normalize
\* returned for the name
LocalItems ==
    {[name |-> "Rice", normalized_name |-> "rice", product_id |-> "PROD_001",
      category |-> "grains", qty |-> 2, price |-> 500, total |-> 1000,
      match_confidence |-> Pct(100)],
     [name |-> "Soap", normalized_name |-> "soap", product_id |-> NoneStr,
      category |-> NoneStr, qty |-> 1, price |-> 0, total |-> 0,
      match_confidence |-> 0]}

\* What the patterns of the extractor find in a text
Findings(itemLists) ==
    [items : itemLists, total : {0, 2500}, date : {"15/01/2024"},
     subtotal : {None}, tax : {None}]

AiFailureKinds ==
    {"no_api_key", "unreachable", "timeout", "http_error", "malformed_response"}

AiResponses(itemLists) ==
    {RawAiData(TRUE, t, items) : t \in {None, 2200}, items \in itemLists}
    \cup {RawAiData(FALSE, None, <<>>), RawAiDataNoFlag,
          RawAiDataWithConfidence}

AiOutcomes(itemLists) ==
    {[kind |-> k, data |-> NoData] : k \in AiFailureKinds}
    \cup {[kind |-> "ok", data |-> d] : d \in AiResponses(itemLists)}

\* the inputs of the single-document specification
AllFindings == Findings(SeqsUpTo(LocalItems, MaxItems))
AllAiOutcomes == AiOutcomes(SeqsUpTo(RawAiItems, MaxAiItems))

\* the inputs of the batch specification
BatchFiles == {"unreadable.jpg", "receipt.jpg", "other.jpg"}
BatchShops == {"ShopA", "Unknown"}
BatchFindings ==
    {[items |-> [i \in 1..MIN_ITEMS_THRESHOLD |->
                    [name |-> "Rice", qty |-> 2, price |-> 500, total |-> 1000]],
      total |-> 2500, date |-> "15/01/2024", subtotal |-> None, tax |-> None]}
BatchAiOutcomes ==
    {[kind |-> "timeout", data |-> NoData],
     [kind |-> "ok", data |-> RawAiDataNoFlag]}

-----------------------------------------------------------------------------
(* main.py: process_receipt, one action per phase *)

Bump(stats, counter) == [stats EXCEPT ![counter] = @ + 1]

\* lines 54-57
BeginProcess(path) ==
    /\ image_path' = path
    /\ pc' = "Init"
    /\ trace' = <<"Init">>
    /\ processing_stats' = Bump(processing_stats, "total_processed")
    /\ raw_text' = ""
    /\ shop_id' = ""
    /\ extracted_data' = NoData
    /\ confidence' = 0
    /\ needs_fallback' = FALSE
    /\ gemini_data' = NoData
    /\ gemini_confidence' = 0
    /\ final_data' = NoData
    /\ processing_method' = ""
    /\ result' = NoData
    /\ local_confidence' = 0
    /\ ai_calls' = 0
    /\ learn_calls' = <<>>
    /\ ocr_outcome' = NoData
    /\ ai_outcome' = NoData
    /\ results_produced' = 0
    /\ fault' = "none"

\* the except branch, lines 130-141
Fail(error) ==
    /\ pc' = "Failed"
    /\ trace' = Append(trace, "Failed")
    /\ processing_stats' = Bump(processing_stats, "failed")
    /\ result' = ErrorResult(error)
    /\ results_produced' = results_produced + 1

\* a call on a ReceiptProcessor that is not running one
StartProcess ==
    /\ batch_pc = "Idle"
    /\ pc \in {"Idle", "Done", "Failed"}
    /\ processing_stats.total_processed < MaxRuns
    /\ \E path \in Files : BeginProcess(path)
    /\ UNCHANGED <<moduleVars, sharedVars, learnerVars, batchVars, last_call>>

\* extract_text_from_image raises: both engines failed
OcrFails ==
    /\ pc = "Init"
    /\ OcrOf(image_path).raised
    /\ ocr_outcome' = OcrOf(image_path)
    /\ fault' = "ocr_error"
    /\ Fail("All OCR engines failed")
    /\ UNCHANGED <<raw_text, shop_id, extracted_data, confidence,
                   needs_fallback, gemini_data, gemini_confidence, final_data,
                   processing_method, local_confidence, ai_calls, learn_calls,
                   ai_outcome>>
    /\ UNCHANGED <<moduleVars, sharedVars, learnerVars, batchVars, last_call,
                   image_path>>

\* lines 62-66
OcrReturns ==
    /\ pc = "Init"
    /\ ~OcrOf(image_path).raised
    /\ LET read == OcrOf(image_path).text
           text == Strip(read)
       IN  /\ ocr_outcome' = OcrOf(image_path)
           /\ raw_text' = text
           /\ IF NoText(text)
              THEN /\ fault' = "no_text"
                   /\ Fail("OCR failed to extract any text")
              ELSE /\ fault' = "none"
                   /\ pc' = "LocalExtract"
                   /\ trace' = Append(trace, "LocalExtract")
                   /\ UNCHANGED <<processing_stats, result, results_produced>>
    /\ UNCHANGED <<shop_id, extracted_data, confidence, needs_fallback,
                   gemini_data, gemini_confidence, final_data,
                   processing_method, local_confidence, ai_calls, learn_calls,
                   ai_outcome>>
    /\ UNCHANGED <<moduleVars, sharedVars, learnerVars, batchVars, last_call,
                   image_path>>

\* an exception escapes identify_shop or extract_items_local (the product
\* normalizer they call is outside this model)
LocalExtractRaises ==
    /\ pc = "LocalExtract"
    /\ fault' = "extract_exception"
    /\ Fail("local extraction failed")
    /\ UNCHANGED <<raw_text, shop_id, extracted_data, confidence,
                   needs_fallback, gemini_data, gemini_confidence, final_data,
                   processing_method, local_confidence, ai_calls, learn_calls,
                   ocr_outcome, ai_outcome>>
    /\ UNCHANGED <<moduleVars, sharedVars, learnerVars, batchVars, last_call,
                   image_path>>

\* lines 72-77
LocalExtractReturns(shops, findings) ==
    /\ pc = "LocalExtract"
    /\ \E shop \in shops, found \in findings :
        LET r == extract_items_local(shop_templates, shop, found)
        IN /\ shop_id' = shop
           /\ extracted_data' = r[1]
           /\ confidence' = r[2]
           /\ local_confidence' = r[2]
    /\ pc' = "ConfidenceCheck"
    /\ trace' = Append(trace, "ConfidenceCheck")
    /\ UNCHANGED <<raw_text, needs_fallback, gemini_data, gemini_confidence,
                   final_data, processing_method, result, ai_calls,
                   learn_calls, ocr_outcome, ai_outcome, results_produced,
                   fault, processing_stats>>
    /\ UNCHANGED <<moduleVars, sharedVars, learnerVars, batchVars, last_call,
                   image_path>>

\* seeded fault: the local branch returns without normalising
PhaseAfterCheck_LocalSkipsNormalize(needs, available) ==
    IF needs /\ available THEN "AIFallback" ELSE "Done"

\* the branch taken at lines 91, 114, 117
PhaseAfterCheck(needs, available) ==
    IF needs /\ available THEN "AIFallback" ELSE "AcceptLocal"

\* lines 82-91
ConfidenceCheck ==
    /\ pc = "ConfidenceCheck"
    /\ final_data' = extracted_data
    /\ processing_method' = "local"
    /\ needs_fallback' = NeedsFallback(confidence, shop_id)
    /\ pc' = PhaseAfterCheck(needs_fallback', GEMINI_AVAILABLE)
    /\ trace' = Append(trace, pc')
    /\ UNCHANGED <<raw_text, shop_id, extracted_data, confidence, gemini_data,
                   gemini_confidence, result, local_confidence, ai_calls,
                   learn_calls, ocr_outcome, ai_outcome, results_produced,
                   fault, processing_stats>>
    /\ UNCHANGED <<moduleVars, sharedVars, learnerVars, batchVars, last_call,
                   image_path>>

\* lines 114-119
AcceptLocal ==
    /\ pc = "AcceptLocal"
    /\ processing_stats' = Bump(processing_stats, "local_success")
    /\ pc' = "NormalizeOutput"
    /\ trace' = Append(trace, "NormalizeOutput")
    /\ UNCHANGED <<raw_text, shop_id, extracted_data, confidence,
                   needs_fallback, gemini_data, gemini_confidence, final_data,
                   processing_method, result, local_confidence, ai_calls,
                   learn_calls, ocr_outcome, ai_outcome, results_produced,
                   fault>>
    /\ UNCHANGED <<moduleVars, sharedVars, learnerVars, batchVars, last_call,
                   image_path>>

\* lines 92-99 and 109-113
AIFallback(outcomes) ==
    /\ pc = "AIFallback"
    /\ \E outcome \in outcomes :
        LET r == extract_items_gemini(outcome)
        IN /\ ai_outcome' = outcome
           /\ ai_calls' = ai_calls + 1
           /\ gemini_data' = r[1]
           /\ gemini_confidence' = r[2]
           /\ IF GeminiSucceeded(r[1])
              THEN /\ final_data' = FinalDataAfterFallback(extracted_data, r[1])
                   /\ processing_method' = "gemini"
                   /\ confidence' = r[2]
                   /\ processing_stats' = Bump(processing_stats, "gemini_fallback")
                   /\ pc' = "LearnFromCorrection"
              ELSE /\ pc' = "NormalizeOutput"
                   /\ UNCHANGED <<final_data, processing_method, confidence,
                                  processing_stats>>
    /\ trace' = Append(trace, pc')
    /\ UNCHANGED <<raw_text, shop_id, extracted_data, needs_fallback, result,
                   local_confidence, learn_calls, ocr_outcome,
                   results_produced, fault>>
    /\ UNCHANGED <<moduleVars, sharedVars, learnerVars, batchVars, last_call,
                   image_path>>

\* lines 101-108
LearnFromCorrection ==
    /\ pc = "LearnFromCorrection"
    /\ LET arg == LearnConfidenceArgument(confidence)
           r == learn_from_gemini_correction(learning_history, templates_file,
                                             shop_id, raw_text, gemini_data, arg)
       IN /\ learning_history' = r.history
          /\ templates_file' = r.templates
          /\ learn_calls' = Append(learn_calls,
                                   [shop_id |-> shop_id, raw_text |-> raw_text,
                                    local_confidence |-> arg, ret |-> r.ret,
                                    appended |-> Len(r.history)
                                                 - Len(learning_history)])
    /\ pc' = "NormalizeOutput"
    /\ trace' = Append(trace, "NormalizeOutput")
    /\ UNCHANGED <<raw_text, shop_id, extracted_data, confidence,
                   needs_fallback, gemini_data, gemini_confidence, final_data,
                   processing_method, result, local_confidence, ai_calls,
                   ocr_outcome, ai_outcome, results_produced, fault,
                   processing_stats>>
    /\ UNCHANGED <<moduleVars, sharedVars, batchVars, last_call, image_path>>

\* lines 121-128
NormalizeOutput ==
    /\ pc = "NormalizeOutput"
    /\ result' = _normalize_output(final_data, processing_method, confidence,
                                   raw_text)
    /\ results_produced' = results_produced + 1
    /\ pc' = "Done"
    /\ trace' = Append(trace, "Done")
    /\ UNCHANGED <<raw_text, shop_id, extracted_data, confidence,
                   needs_fallback, gemini_data, gemini_confidence, final_data,
                   processing_method, local_confidence, ai_calls, learn_calls,
                   ocr_outcome, ai_outcome, fault, processing_stats>>
    /\ UNCHANGED <<moduleVars, sharedVars, learnerVars, batchVars, last_call,
                   image_path>>

Next ==
    \/ StartProcess
    \/ OcrFails
    \/ OcrReturns
    \/ LocalExtractRaises
    \/ LocalExtractReturns(Shops, AllFindings)
    \/ ConfidenceCheck
    \/ AcceptLocal
    \/ AIFallback(AllAiOutcomes)
    \/ LearnFromCorrection
    \/ NormalizeOutput

Spec == Init /\ [][Next]_vars

-----------------------------------------------------------------------------
(* main.py: batch_process_receipts *)

\* lines 234-235: a new ReceiptProcessor and an empty result list
BatchStart ==
    /\ batch_pc = "Idle"
    /\ pc = "Idle"
    /\ \E paths \in SeqsUpTo(BatchFiles, MaxBatch) : image_paths' = paths
    /\ batch_pc' = "Loop"
    /\ processing_stats' = NewStats
    /\ results' = <<>>
    /\ results_for' = <<>>
    /\ UNCHANGED <<moduleVars, sharedVars, learnerVars, runVars, last_call>>

\* lines 237-239: the call of process_receipt on the next path
BatchCall ==
    /\ batch_pc = "Loop"
    /\ pc = "Idle"
    /\ Len(results) < Len(image_paths)
    /\ BeginProcess(image_paths[Len(results) + 1])
    /\ UNCHANGED <<moduleVars, sharedVars, learnerVars, batchVars, last_call>>

\* seeded fault: the newest result is put first
AppendResult_First(rs, r) == <<r>> \o rs

\* results.append(result)
AppendResult(rs, r) == Append(rs, r)

\* line 240, after process_receipt returned
BatchAppend ==
    /\ batch_pc = "Loop"
    /\ pc \in {"Done", "Failed"}
    /\ results' = AppendResult(results, result)
    /\ results_for' = Append(results_for,
                             [image_path |-> image_path, fault |-> fault])
    /\ pc' = "Idle"
    /\ trace' = <<>>
    /\ UNCHANGED <<raw_text, shop_id, extracted_data, confidence,
                   needs_fallback, gemini_data, gemini_confidence, final_data,
                   processing_method, result, local_confidence, ai_calls,
                   learn_calls, ocr_outcome, ai_outcome, results_produced,
                   fault, image_path, processing_stats>>
    /\ UNCHANGED <<moduleVars, sharedVars, learnerVars, batch_pc, image_paths, last_call>>

\* line 249: return results
BatchReturn ==
    /\ batch_pc = "Loop"
    /\ pc = "Idle"
    /\ Len(results) = Len(image_paths)
    /\ batch_pc' = "Returned"
    /\ UNCHANGED <<moduleVars, sharedVars, learnerVars, runVars, processing_stats,
                   image_paths, results, results_for, last_call>>

BatchNext ==
    \/ BatchStart
    \/ BatchCall
    \/ OcrFails
    \/ OcrReturns
    \/ LocalExtractRaises
    \/ LocalExtractReturns(BatchShops, BatchFindings)
    \/ ConfidenceCheck
    \/ AcceptLocal
    \/ AIFallback(BatchAiOutcomes)
    \/ LearnFromCorrection
    \/ NormalizeOutput
    \/ BatchAppend
    \/ BatchReturn

BatchInit == Init /\ GEMINI_AVAILABLE

BatchSpec == BatchInit /\ [][BatchNext]_vars

-----------------------------------------------------------------------------
(* The service: documents are processed one after the other in one Python  *)
(* process, and the learner is also called directly between two documents  *)

\* the shop the learner is called for, and the shops of the documents
ServiceShops == {"LocalShop"}
ServiceDocumentShops == {"ShopA", "LocalShop"}

ServiceCorrections ==
    {[success |-> TRUE, merchant |-> "AI Store", currency |-> "CDF",
      items |-> <<[name |-> "Rice", price |-> 500, quantity |-> 3]>>,
      total |-> 2200]}

\* receipt_learner.learn_from_gemini_correction, while no document is being
\* processed
LearnBetweenDocuments ==
    /\ batch_pc = "Idle"
    /\ pc \in {"Idle", "Done", "Failed"}
    /\ LearnCallOn(ServiceShops, {Pct(40)}, ServiceCorrections)

ServiceNext ==
    \/ LearnBetweenDocuments
    \/ StartProcess
    \/ OcrFails
    \/ OcrReturns
    \/ LocalExtractRaises
    \/ LocalExtractReturns(ServiceDocumentShops, BatchFindings)
    \/ ConfidenceCheck
    \/ AcceptLocal
    \/ AIFallback(BatchAiOutcomes)
    \/ LearnFromCorrection
    \/ NormalizeOutput

ServiceInit == Init /\ GEMINI_AVAILABLE

ServiceSpec == ServiceInit /\ [][ServiceNext]_vars

-----------------------------------------------------------------------------
(* Properties of the learner (specification LearnSpec) *)

\* number of samples of shop in history
CountOf(history, shop) ==
    Cardinality({i \in 1..Len(history) : history[i].shop_id = shop})

\* the call described by c is one the learner accepts
AcceptedCall(c) ==
    /\ c.op = "learn"
    /\ c.local_confidence < Pct(80)
    /\ "success" \in DOMAIN c.gemini_result
    /\ c.gemini_result.success

\* the step wrote a template for shop
Wrote(before, after, shop) ==
    /\ shop \in DOMAIN after
    /\ shop \in DOMAIN before => after[shop] # before[shop]

IsLearned(template) == "learned_from_samples" \in DOMAIN template

\* C5: a learn call writes a template for shop S, and returns true, only if
\* after it S itself has at least 3 samples; an accepted call that leaves S
\* with fewer than 3 samples returns false and writes nothing; the call that
\* brings S to exactly 3 samples leaves a learned template for S in the store.
C5_TemplateNeedsThreeOwnSamples ==
    [][last_call'.op = "learn" =>
        LET S == last_call'.shop_id
            n == CountOf(learning_history', S)
        IN /\ \A T \in Shops :
                Wrote(templates_file, templates_file', T) =>
                    /\ T = S
                    /\ CountOf(learning_history', T) >= 3
                    /\ last_call'.ret
           /\ last_call'.ret =>
                /\ AcceptedCall(last_call')
                /\ n >= 3
                /\ S \in DOMAIN templates_file'
                /\ IsLearned(templates_file'[S])
           /\ (AcceptedCall(last_call') /\ n < 3) =>
                /\ ~last_call'.ret
                /\ templates_file' = templates_file
           /\ (AcceptedCall(last_call') /\ n = 3) =>
                /\ S \in DOMAIN templates_file'
                /\ IsLearned(templates_file'[S])
                /\ templates_file'[S].learned_from_samples = 3
    ]_vars

C5_Witness ==
    /\ last_call.op = "learn"
    /\ last_call.ret
    /\ CountOf(learning_history, last_call.shop_id) = 3
    /\ Len(learning_history) = 4
    /\ \E T \in LearnShops : CountOf(learning_history, T) = 1
                             /\ T \notin DOMAIN templates_file
    /\ IsLearned(templates_file[last_call.shop_id])

C7_HistoryAppendOnly ==
    [][last_call'.op = "learn" =>
        LET S == last_call'.shop_id
            n == CountOf(learning_history', S)
            old == Len(learning_history)
        IN /\ Len(learning_history') >= old
           /\ SubSeq(learning_history', 1, old) = learning_history
           /\ AcceptedCall(last_call') =>
                /\ Len(learning_history') = old + 1
                /\ learning_history'[old + 1].shop_id = S
                /\ learning_history'[old + 1].local_confidence
                       = last_call'.local_confidence
                /\ learning_history'[old + 1].gemini_data
                       = last_call'.gemini_result
           /\ ~AcceptedCall(last_call') => Len(learning_history') = old
           /\ (AcceptedCall(last_call') /\ n >= 3) =>
                /\ S \in DOMAIN templates_file'
                /\ IsLearned(templates_file'[S])
                /\ templates_file'[S].learned_from_samples = n
                /\ \A T \in DOMAIN templates_file :
                       T # S => (/\ T \in DOMAIN templates_file'
                                 /\ templates_file'[T] = templates_file[T])
    ]_vars

C7_Witness ==
    /\ last_call.op = "learn"
    /\ last_call.ret
    /\ Len(learning_history) = 4
    /\ CountOf(learning_history, last_call.shop_id) = 4
    /\ templates_file[last_call.shop_id].learned_from_samples = 4

-----------------------------------------------------------------------------
(* Properties of process_receipt (specification Spec) *)

Range(s) == {s[i] : i \in 1..Len(s)}

\* the steps of a call in progress
RunStep ==
    \/ OcrFails
    \/ OcrReturns
    \/ LocalExtractRaises
    \/ LocalExtractReturns(Shops, AllFindings)
    \/ ConfidenceCheck
    \/ AcceptLocal
    \/ AIFallback(AllAiOutcomes)
    \/ LearnFromCorrection
    \/ NormalizeOutput

\* a step of the call in progress on one input of each kind; it can be taken
\* only where RunStep can
SomeRunStep ==
    \/ OcrFails
    \/ OcrReturns
    \/ LocalExtractRaises
    \/ ConfidenceCheck
    \/ AcceptLocal
    \/ AIFallback({[kind |-> "timeout", data |-> NoData]})
    \/ LearnFromCorrection
    \/ NormalizeOutput

PastCheck ==
    pc \in {"AIFallback", "AcceptLocal", "LearnFromCorrection",
            "NormalizeOutput", "Done"}
PastBranch == pc \in {"LearnFromCorrection", "NormalizeOutput", "Done"}

\* the fallback is warranted: local confidence below 0.85 or shop "Unknown"
Warranted == local_confidence < Pct(85) \/ shop_id = "Unknown"

\* the items of data that have a name and a positive price, as <<name, price>>
NamedPricedItems(data) ==
    LET items == SelectSeq(data.items,
                           LAMBDA it : Strip(it.name) # "" /\ it.price > 0)
    IN [i \in 1..Len(items) |-> <<Strip(items[i].name), items[i].price>>]

ResultItems == [i \in 1..Len(result.items) |->
                   <<result.items[i].name, result.items[i].price>>]

\* C1: in a run that got past ConfidenceCheck with the AI service available,
\* the AI fallback is invoked iff the local confidence is below 0.85 or the
\* shop is "Unknown"; otherwise the AI service is never called and the local
\* result is accepted.
C1_FallbackIffWarranted ==
    (GEMINI_AVAILABLE /\ PastCheck) =>
        /\ ("AIFallback" \in Range(trace)) <=> Warranted
        /\ PastBranch => ai_calls = (IF Warranted THEN 1 ELSE 0)
        /\ ~Warranted =>
            /\ ai_calls = 0
            /\ "AcceptLocal" \in Range(trace)
            /\ pc = "Done" =>
                /\ result.success
                /\ result.processing_method = "local"
                /\ result.confidence = local_confidence
                /\ result.merchant = extracted_data.merchant
                /\ ResultItems = NamedPricedItems(extracted_data)

C1_Witness ==
    /\ pc = "Done"
    /\ GEMINI_AVAILABLE
    /\ shop_id # "Unknown"
    /\ local_confidence >= Pct(85)
    /\ ai_calls = 0
    /\ result.processing_method = "local"

\* C2 (the claim as stated): when the AI fallback succeeded and the local
\* confidence was below 0.8, the learner is called exactly once with that
\* local confidence and appends exactly one sample of the shop recording it.
C2_LearnsWithLocalConfidence ==
    (pc = "Done" /\ ai_calls = 1 /\ GeminiSucceeded(gemini_data)
     /\ local_confidence < Pct(80)) =>
        /\ Len(learn_calls) = 1
        /\ learn_calls[1].local_confidence = local_confidence
        /\ learn_calls[1].appended = 1
        /\ learning_history # <<>>
        /\ learning_history[Len(learning_history)].shop_id = shop_id
        /\ learning_history[Len(learning_history)].local_confidence
               = local_confidence

\* the AI service did not deliver a usable answer
AiFailed ==
    /\ ai_calls = 1
    /\ \/ ai_outcome.kind \in AiFailureKinds
       \/ /\ ai_outcome.kind = "ok"
          /\ "success" \in DOMAIN ai_outcome.data
          /\ ~ai_outcome.data.success

\* C3: when the fallback is warranted but the AI service is unavailable or
\* fails (unconfigured, unreachable, timeout, error status, malformed
\* response, success = false), the run ends in Done, never Failed, with
\* success, method "local", the local data and the local confidence.
C3_AiFailureAcceptsLocal ==
    /\ (Warranted /\ PastCheck) => pc # "Failed"
    /\ pc = "Failed" => ~("ConfidenceCheck" \in Range(trace))
    /\ (pc = "Done" /\ Warranted /\ (~GEMINI_AVAILABLE \/ AiFailed)) =>
        /\ result.success
        /\ result.processing_method = "local"
        /\ result.confidence = local_confidence
        /\ result.merchant = extracted_data.merchant
        /\ result.date = extracted_data.date
        /\ result.subtotal = extracted_data.subtotal
        /\ result.tax = extracted_data.tax
        /\ result.currency = extracted_data.currency
        /\ ResultItems = NamedPricedItems(extracted_data)
        /\ extracted_data.total # 0 => result.total = extracted_data.total

C3_Witness ==
    /\ pc = "Done"
    /\ ai_calls = 1
    /\ ai_outcome.kind = "timeout"
    /\ local_confidence < Pct(50)
    /\ result.processing_method = "local"
    /\ result.items # <<>>

\* C4 (the claim as stated): when the fallback returned success = true the
\* result is built from the AI result alone: the method marks the AI path,
\* the confidence is the one the AI response gives (0.9 if it gives none),
\* and merchant, date, items, subtotal, tax, total and currency are the AI
\* result's, none of them the local extraction's.
C4_ResultFromAiResponse ==
    (pc = "Done" /\ ai_calls = 1 /\ "success" \in DOMAIN gemini_data
     /\ gemini_data.success) =>
        /\ result.processing_method = "gemini"
        /\ result.confidence = Get(ai_outcome.data, "confidence", Pct(90))
        /\ result.merchant = gemini_data.merchant
        /\ result.date = gemini_data.date
        /\ result.subtotal = gemini_data.subtotal
        /\ result.tax = gemini_data.tax
        /\ result.currency = gemini_data.currency
        /\ ResultItems = NamedPricedItems(gemini_data)
        /\ \/ result.total = gemini_data.total
           \/ /\ gemini_data.total = 0
              /\ result.total = SumSeq([i \in 1..Len(result.items) |->
                                           result.items[i].total])

\* C8: an OCR failure, an empty or whitespace-only OCR text, or an exception
\* in local extraction ends the run in Failed with success = false, method
\* "failed", confidence 0 and an error string; the run takes no further
\* step, and made no AI call and no learner call.
C8_FailureIsTerminal ==
    /\ (ocr_outcome # NoData
        /\ (ocr_outcome.raised \/ ocr_outcome.text \in WhitespaceOnly))
           => pc = "Failed"
    /\ fault # "none" => pc = "Failed"
    /\ pc = "Failed" =>
        /\ result.success = FALSE
        /\ result.processing_method = "failed"
        /\ result.confidence = 0
        /\ result.error # ""
        /\ ai_calls = 0
        /\ learn_calls = <<>>
        /\ trace[Len(trace)] = "Failed"
        /\ Cardinality({i \in 1..Len(trace) : trace[i] = "Init"}) = 1
        /\ ~ENABLED RunStep

C8_Witness ==
    /\ pc = "Failed"
    /\ ocr_outcome.raised = FALSE
    /\ ocr_outcome.text = " \n "
    /\ result.success = FALSE

Rank(phase) ==
    CASE phase = "Init" -> 1
      [] phase = "LocalExtract" -> 2
      [] phase = "ConfidenceCheck" -> 3
      [] phase \in {"AcceptLocal", "AIFallback"} -> 4
      [] phase = "LearnFromCorrection" -> 5
      [] phase = "NormalizeOutput" -> 6
      [] phase = "Done" -> 7
      [] phase = "Failed" -> 8

\* C9: a run visits the states in the order Init, LocalExtract,
\* ConfidenceCheck, AcceptLocal or AIFallback, optionally
\* LearnFromCorrection, NormalizeOutput, Done (or ends in Failed); it always
\* can go on until it is in Done or Failed, and has then produced exactly one
\* result; LearnFromCorrection only follows a successful AIFallback.
C9_StateOrder ==
    /\ (trace = <<>>) <=> (pc = "Idle")
    /\ trace # <<>> =>
        /\ trace[1] = "Init"
        /\ trace[Len(trace)] = pc
        /\ \A i \in 1..(Len(trace) - 1) : Rank(trace[i]) < Rank(trace[i + 1])
        /\ \A i \in 1..(Len(trace) - 1) :
              /\ trace[i + 1] = "LocalExtract" => trace[i] = "Init"
              /\ trace[i + 1] = "ConfidenceCheck" => trace[i] = "LocalExtract"
              /\ trace[i + 1] \in {"AcceptLocal", "AIFallback"}
                    => trace[i] = "ConfidenceCheck"
              /\ trace[i + 1] = "LearnFromCorrection" => trace[i] = "AIFallback"
              /\ trace[i + 1] = "NormalizeOutput"
                    => trace[i] \in {"AcceptLocal", "AIFallback",
                                     "LearnFromCorrection"}
              /\ trace[i + 1] = "Done" => trace[i] = "NormalizeOutput"
              /\ trace[i] \notin {"Done", "Failed"}
        /\ "LearnFromCorrection" \in Range(trace) =>
              ai_calls = 1 /\ gemini_data.success
        /\ (PastBranch /\ ai_calls = 1 /\ GeminiSucceeded(gemini_data))
              => "LearnFromCorrection" \in Range(trace)
        /\ results_produced = (IF pc \in {"Done", "Failed"} THEN 1 ELSE 0)
        /\ pc \in {"Done", "Failed"} => (result # NoData /\ ~ENABLED RunStep)
        /\ pc \notin {"Done", "Failed"} => ENABLED SomeRunStep

C9_Witness ==
    /\ pc = "Done"
    /\ trace = <<"Init", "LocalExtract", "ConfidenceCheck", "AIFallback",
                 "LearnFromCorrection", "NormalizeOutput", "Done">>
    /\ results_produced = 1

-----------------------------------------------------------------------------
(* Properties of batch_process_receipts (specification BatchSpec) *)

\* the document of path cannot be read
Unreadable(path) == path = "unreadable.jpg"

\* C10: a batch of N documents returns N results, the i-th made for the i-th
\* path; a document that fails gives a result with success = false at its own
\* position, and the documents after it are still processed.
C10_BatchKeepsOrderAndGoesOn ==
    /\ Len(results) = Len(results_for)
    /\ Len(results) <= Len(image_paths)
    /\ batch_pc = "Returned" => Len(results) = Len(image_paths)
    /\ \A i \in 1..Len(results) :
        /\ results_for[i].image_path = image_paths[i]
        /\ results[i].success = FALSE
              <=> (Unreadable(image_paths[i]) \/ results_for[i].fault # "none")
        /\ results[i].success => results[i].rawText = OcrOf(image_paths[i]).text
    /\ (batch_pc = "Loop" /\ pc \in {"Done", "Failed"}) => ENABLED BatchAppend
    /\ (batch_pc = "Loop" /\ pc = "Idle") =>
          IF Len(results) < Len(image_paths)
          THEN ENABLED BatchCall
          ELSE ENABLED BatchReturn
    /\ (batch_pc = "Loop" /\ pc \notin {"Idle", "Done", "Failed"})
          => ENABLED SomeRunStep

C10_Witness ==
    /\ batch_pc = "Returned"
    /\ image_paths = <<"receipt.jpg", "unreadable.jpg", "other.jpg">>
    /\ Len(results) = 3
    /\ results[1].success
    /\ results[1].rawText = "receipt text"
    /\ results[2].success = FALSE
    /\ results[3].success
    /\ results[3].rawText = "other text"

-----------------------------------------------------------------------------
(* The pure functions, called directly: each call is recorded in last_call *)

NormalizeItems ==
    {[name |-> "Rice", qty |-> 2, price |-> 500, total |-> 1000],
     [name |-> "Rice", qty |-> 2, price |-> 500, total |-> 1001],
     [name |-> "Rice", qty |-> 2, price |-> 500, total |-> 1200],
     [name |-> "Rice", qty |-> 2, price |-> 500, total |-> 0],
     [name |-> "", qty |-> 1, price |-> 300, total |-> 300],
     [name |-> "Soap", qty |-> 1, price |-> 0, total |-> 0],
     [name |-> "Oil", price |-> 800, quantity |-> 3]}

NormalizeTotals == {0, 2500, None}

NormalizeInputs ==
    {[merchant |-> "ShopA", items |-> items, total |-> t] :
        items \in SeqsUpTo(NormalizeItems, MaxItems), t \in NormalizeTotals}
    \cup {[merchant |-> "ShopA", items |-> items] :
            items \in SeqsUpTo(NormalizeItems, 1)}

\* ReceiptProcessor._normalize_output(data, method, confidence, raw_text)
NormalizeCall ==
    /\ last_call = NoCall
    /\ \E data \in NormalizeInputs, method \in {"local", "gemini"} :
        /\ last_call' = [op |-> "normalize", data |-> data,
                         normalized |-> _normalize_output(data, method,
                                                          Pct(90), "receipt text")]
        /\ UNCHANGED <<moduleVars, sharedVars, learnerVars, processing_stats,
                       runVars, batchVars>>

ScoreItems ==
    {[name |-> "Rice", qty |-> 2, price |-> 500, total |-> 1000],
     [name |-> "Soap", qty |-> 1, price |-> 0, total |-> 0],
     [name |-> "", qty |-> 1, price |-> 300, total |-> 300]}

ScoreInputs ==
    [merchant : {"ShopA", "Unknown"}, items : SeqsUpTo(ScoreItems, MaxItems),
     total : {0, 2500}]

\* ReceiptExtractor.calculate_confidence_score(extracted_data)
ScoreCall ==
    /\ last_call = NoCall
    /\ \E data \in ScoreInputs :
        /\ last_call' = [op |-> "score", extracted_data |-> data,
                         score |-> calculate_confidence_score(data)]
        /\ UNCHANGED <<moduleVars, sharedVars, learnerVars, processing_stats,
                       runVars, batchVars>>

\* the contents shop_templates.json can have for ShopA: each pattern is one
\* re can apply or one it cannot
PatternChoices == {"curated", InvalidPattern}

ExtractTemplates ==
    [item_pattern : PatternChoices, total_pattern : PatternChoices,
     subtotal_pattern : PatternChoices, tax_pattern : PatternChoices,
     date_pattern : PatternChoices, currency : {"CDF"}]

ExtractStores == {[s \in {"ShopA"} |-> t] : t \in ExtractTemplates}

\* extract_items_local(raw_text, shop_id) of extractor.py, on an extractor
\* whose shop_templates is the store
ExtractCall ==
    /\ last_call = NoCall
    /\ \E store \in ExtractStores, shop \in Shops, found \in AllFindings :
        LET r == extract_items_local(store, shop, found)
        IN /\ last_call' = [op |-> "extract", shop_id |-> shop,
                            store |-> store, found |-> found,
                            extracted |-> r[1], confidence |-> r[2]]
           /\ UNCHANGED <<moduleVars, sharedVars, learnerVars,
                          processing_stats, runVars, batchVars>>

\* identify_shop(raw_text) of extractor.py
IdentifyCall ==
    /\ last_call = NoCall
    /\ \E text \in SeqsUpTo(Words, MaxWords) :
        /\ last_call' = [op |-> "identify", text |-> text,
                         shop |-> identify_shop(text)]
        /\ UNCHANGED <<moduleVars, sharedVars, learnerVars, processing_stats,
                       runVars, batchVars>>

\* samples of one shop: the text of the receipt and what the AI found on it
SynthSamples ==
    {LearningSample("LocalShop", "Rice 2 x 500 TOTAL: 1000",
        [success |-> TRUE, currency |-> "CDF", total |-> 1000,
         items |-> <<[name |-> "Rice", price |-> 500, quantity |-> 2]>>],
        Pct(40)),
     LearningSample("LocalShop", "Palm Oil 2200 MONTANT: 2200 TVA: 100",
        [success |-> TRUE, currency |-> "CDF", total |-> 2200, tax |-> 100,
         items |-> <<[name |-> "Palm Oil", price |-> 2200, quantity |-> 1]>>],
        Pct(40)),
     LearningSample("LocalShop", "Rice 500 SOUS-TOTAL: 500 SOMME: 600 TAXE: 100",
        [success |-> TRUE, currency |-> "USD", total |-> 600,
         subtotal |-> 500, tax |-> 100,
         items |-> <<[name |-> "Rice", price |-> 500, quantity |-> 1]>>],
        Pct(40)),
     LearningSample("LocalShop", "Rice 500",
        [success |-> TRUE, currency |-> "CDF", total |-> 0,
         items |-> <<[name |-> "Rice", price |-> 500, quantity |-> 1]>>],
        Pct(40))}

\* _synthesize_template_from_samples(samples) of learning_engine.py
SynthesizeCall ==
    /\ last_call = NoCall
    /\ \E samples \in SeqsUpTo(SynthSamples, MaxSynth) \ {<<>>} :
        /\ last_call' = [op |-> "synthesize", samples |-> samples,
                         template |-> _synthesize_template_from_samples(samples)]
        /\ UNCHANGED <<moduleVars, sharedVars, learnerVars, processing_stats,
                       runVars, batchVars>>

ApiNext ==
    NormalizeCall \/ ScoreCall \/ ExtractCall \/ IdentifyCall \/ SynthesizeCall

ApiInit == Init /\ GEMINI_AVAILABLE

ApiSpec == ApiInit /\ [][ApiNext]_vars

-----------------------------------------------------------------------------
(* Properties of the pure functions *)

Abs(x) == IF x < 0 THEN 0 - x ELSE x

\* an input item the claim says is retained: its name is not empty and its
\* price is positive
InputItemRetained(item) ==
    Get(item, "name", "") # "" /\ Get(item, "price", 0) > 0

NameAndPrice(items) ==
    [i \in 1..Len(items) |->
        <<Get(items[i], "name", ""), Get(items[i], "price", 0)>>]

\* C11: every item of a normalised result has a non-empty name, a positive
\* price and a total within 0.01 of qty * price; the retained items are, in
\* order, exactly the input items whose name is not empty and whose price is
\* positive.
C11_RetainedItemsAreClean ==
    last_call.op = "normalize" =>
        LET out == last_call.normalized.items
            inp == Get(last_call.data, "items", <<>>)
        IN /\ \A i \in 1..Len(out) :
                /\ out[i].name # ""
                /\ out[i].price > 0
                /\ Abs(out[i].total - out[i].qty * out[i].price) <= 1
           /\ NameAndPrice(out) = NameAndPrice(SelectSeq(inp, InputItemRetained))

\* a result that keeps an item whose total was within the tolerance, one
\* whose total was recomputed, and has dropped both kinds of bad item
C11_Witness ==
    /\ last_call.op = "normalize"
    /\ Len(last_call.data.items) = 3
    /\ last_call.data.items[1].name = ""
    /\ last_call.data.items[2].price = 0
    /\ Get(last_call.data.items[3], "total", 0) = 1200
    /\ Len(last_call.normalized.items) = 1
    /\ last_call.normalized.items[1].total = 1000

\* C12: the total of a normalised result is the sum of the retained items'
\* totals when the incoming total is zero (or missing), and the incoming
\* total unchanged otherwise.
C12_TotalRecomputedOnlyWhenZero ==
    last_call.op = "normalize" =>
        LET out == last_call.normalized
            incoming == Get(last_call.data, "total", 0)
        IN out.total = IF incoming = 0
                       THEN SumSeq([i \in 1..Len(out.items) |->
                                       out.items[i].total])
                       ELSE incoming

C12_Witness ==
    /\ last_call.op = "normalize"
    /\ Get(last_call.data, "total", 0) = 0
    /\ Len(last_call.normalized.items) = 2
    /\ last_call.normalized.total = 1800

\* the weighted sum of spec section 4.3, in exact arithmetic
WeightedSum(data) ==
    LET items == data.items
        n == Len(items)
        complete == Cardinality({i \in 1..n :
                        items[i].name # "" /\ items[i].price > 0})
    IN (IF data.merchant # "Unknown" THEN Pct(30) ELSE 0)
       + (IF n >= 3 THEN Pct(30) ELSE IF n >= 1 THEN Pct(15) ELSE 0)
       + (IF data.total > 0 THEN Pct(20) ELSE 0)
       + (IF n > 0 THEN (Pct(20) * complete) \div n ELSE 0)

\* C13: the score of an extraction is 0.3 for a known shop, plus 0.3 for at
\* least 3 items or 0.15 for 1 or 2, plus 0.2 for a positive total, plus
\* 0.2 * complete / n, and lies in [0, 1].  (Violated: for a known shop, one
\* complete item and a positive total the code returns 0.8499999999999999,
\* which is below the 0.85 the sum is.)
C13_ScoreIsWeightedSum ==
    last_call.op = "score" =>
        /\ last_call.score = WeightedSum(last_call.extracted_data)
        /\ last_call.score >= 0
        /\ last_call.score <= ConfScale

IncompleteItem == [name |-> "", qty |-> 1, price |-> 0, total |-> 0]

\* C14: giving an extraction a positive total never lowers its score, and
\* appending an item with an empty name and a zero price never raises the
\* completeness credit.
C14_ScoreMonotone ==
    last_call.op = "score" =>
        LET data == last_call.extracted_data
        IN /\ data.total <= 0 =>
                calculate_confidence_score([data EXCEPT !.total = 2500])
                    >= last_call.score
           /\ CompletenessCredit(Append(data.items, IncompleteItem))
                  <= CompletenessCredit(data.items)

\* an extraction without total where both changes make a strict difference
C14_Witness ==
    /\ last_call.op = "score"
    /\ last_call.extracted_data.total = 0
    /\ Len(last_call.extracted_data.items) = 2
    /\ calculate_confidence_score(
           [last_call.extracted_data EXCEPT !.total = 2500]) > last_call.score
    /\ CompletenessCredit(Append(last_call.extracted_data.items, IncompleteItem))
           < CompletenessCredit(last_call.extracted_data.items)

\* the part of the score of an extraction that its merchant accounts for
ShopPart(data, score) ==
    score - calculate_confidence_score([data EXCEPT !.merchant = "Unknown"])

\* C15: the score of a local extraction contains the 0.3 shop credit exactly
\* when the shop identified for the document is not "Unknown", with or
\* without a template.  (Violated: without a template the generic extractor
\* reports the merchant "Unknown" and the credit is not given.)
C15_ShopCreditIffIdentified ==
    last_call.op = "extract" =>
        (ShopPart(last_call.extracted, last_call.confidence) >= Pct(30) - 2
            <=> last_call.shop_id # "Unknown")

\* the application of the shop's template lets an exception escape
TemplateApplicationRaises(store, shop, found) ==
    ExtractWithTemplate(shop, store[shop], found).raised

\* C17: a local extraction returns exactly the generic extractor's result
\* when the shop has no template or an exception escapes the application of
\* its template; otherwise it returns what the template's patterns found,
\* with the shop as merchant.
C17_GenericOnMissOrFailure ==
    last_call.op = "extract" =>
        LET store == last_call.store
            shop == last_call.shop_id
            found == last_call.found
            out == last_call.extracted
        IN IF shop \notin DOMAIN store
              \/ TemplateApplicationRaises(store, shop, found)
           THEN out = _extract_generic(found)
           ELSE /\ out.merchant = shop
                /\ out.total = found.total
                /\ out.date = found.date
                /\ out.items \in {found.items, <<>>}

\* a template whose total pattern cannot be applied, on a text with items:
\* the result is the generic one
C17_Witness ==
    /\ last_call.op = "extract"
    /\ last_call.shop_id = "ShopA"
    /\ last_call.store["ShopA"].item_pattern = "curated"
    /\ last_call.store["ShopA"].total_pattern = InvalidPattern
    /\ last_call.found.items # <<>>
    /\ last_call.extracted.merchant = "Unknown"
    /\ last_call.extracted.date = NoneStr

\* what the claim expects of the field of pattern key: nothing when the
\* pattern fails, what the pattern finds otherwise
ExpectedField(template, found, key, empty, value) ==
    IF PatternFails(template[key]) THEN empty ELSE value

\* C18: when the shop has a template and the pattern of one field (items,
\* total, subtotal, tax, date) fails, only that field is empty: the result is
\* still the template's, with the shop as merchant and every other field as
\* its pattern found it.  (Violated: only a failing item pattern is confined;
\* a failing total, subtotal, tax or date pattern aborts the template
\* extraction and the generic result is returned.)
C18_FieldFailureIsConfined ==
    (last_call.op = "extract" /\ last_call.shop_id \in DOMAIN last_call.store) =>
        LET t == last_call.store[last_call.shop_id]
            found == last_call.found
            out == last_call.extracted
        IN /\ out.merchant = last_call.shop_id
           /\ out.items = ExpectedField(t, found, "item_pattern", <<>>, found.items)
           /\ out.total = ExpectedField(t, found, "total_pattern", 0, found.total)
           /\ out.subtotal
                  = ExpectedField(t, found, "subtotal_pattern", None, found.subtotal)
           /\ out.tax = ExpectedField(t, found, "tax_pattern", None, found.tax)
           /\ out.date = ExpectedField(t, found, "date_pattern", NoneStr, found.date)

\* the shop of row n of the table has a keyword whose words are consecutive
\* words of the upper-cased text
HasWholeWordKeyword(text, n) ==
    \E k \in 1..Len(SHOP_RULES[n].keywords) :
        LET kw == SHOP_RULES[n].keywords[k]
        IN \E i \in 0..(Len(text) - Len(kw)) :
               \A j \in 1..Len(kw) : Upper(text[i + j]) = kw[j]

MatchingRows(text) ==
    {n \in 1..Len(SHOP_RULES) : HasWholeWordKeyword(text, n)}

PhoneOrCity(text) ==
    LET upper == [i \in 1..Len(text) |-> Upper(text[i])]
    IN PhoneMatches(upper) \/ CityMatches(upper)

\* C16: identify_shop returns the first shop, in the order of the table,
\* one of whose keywords is in the upper-cased text as a whole word (a text
\* with SHOPRITE SUPERMARKET is never "Unknown"); it returns "LocalShop"
\* exactly when no keyword matches and a phone number or a city does, and
\* "Unknown" exactly when nothing matches.
C16_FirstShopInTableOrder ==
    last_call.op = "identify" =>
        LET text == last_call.text
            rows == MatchingRows(text)
        IN /\ rows # {} =>
                \E n \in rows :
                    /\ \A m \in rows : n <= m
                    /\ last_call.shop = SHOP_RULES[n].shop
           /\ last_call.shop = "LocalShop" <=> (rows = {} /\ PhoneOrCity(text))
           /\ last_call.shop = "Unknown" <=> (rows = {} /\ ~PhoneOrCity(text))
           /\ (\E i \in 1..(Len(text) - 1) :
                  Upper(text[i]) = "SHOPRITE" /\ text[i + 1] = "SUPERMARKET")
                  => last_call.shop # "Unknown"

\* a text with keywords of two shops, the later shop's keyword first in the
\* text: the earlier shop of the table is returned
C16_Witness ==
    /\ last_call.op = "identify"
    /\ last_call.text = <<"Shoprite", "SUPERMARKET", "Carrefour">>
    /\ last_call.shop = "ShopC"

-----------------------------------------------------------------------------
(* Several learner instances on the same learning_history.json and         *)
(* shop_templates.json.  A call is split where it reads or writes a file;  *)
(* between two of these steps the other instance may run.  Only accepted   *)
(* calls are made.  accepted and seen are history fields: the shops of the *)
(* samples the instance accepted, and for each synthesis its shop, the     *)
(* count of samples it used and the count all instances had accepted.      *)

ConcShops == {"LocalShop"}

ConcSample(shop) ==
    LearningSample(shop, "receipt text",
                   CHOOSE g \in ServiceCorrections : TRUE, Pct(40))

AcceptedFor(ws, shop) ==
    SumSeq([i \in 1..2 |->
        LET w == IF i = 1 THEN "w1" ELSE "w2"
        IN Len(SelectSeq(ws[w].accepted, LAMBDA s : s = shop))])

AcceptedTotal(ws) == Len(ws["w1"].accepted) + Len(ws["w2"].accepted)

ConcFrame ==
    UNCHANGED <<moduleVars, learning_history, processing_stats, runVars,
                batchVars, last_call, clientVars, normalizerVars>>

\* ReceiptLearner(): __init__ loads learning_history.json
NewLearner(w) ==
    /\ writers[w].pc = "absent"
    /\ writers' = [writers EXCEPT ![w].pc = "ready",
                                  ![w].learning_history = history_file]
    /\ UNCHANGED <<history_file, templates_file>>
    /\ ConcFrame

\* learn_from_gemini_correction up to self.learning_history.append
AppendSample(w) ==
    /\ writers[w].pc = "ready"
    /\ AcceptedTotal(writers) < MaxSamples
    /\ \E shop \in ConcShops :
        writers' = [writers EXCEPT
            ![w].pc = "appended",
            ![w].shop_id = shop,
            ![w].learning_history = AddToHistory(@, ConcSample(shop)),
            ![w].accepted = Append(@, shop)]
    /\ UNCHANGED <<history_file, templates_file>>
    /\ ConcFrame

\* _should_generate_template is false: on to save_learning_history
SkipGenerate(w) ==
    /\ writers[w].pc = "appended"
    /\ ~_should_generate_template(writers[w].learning_history,
                                  writers[w].shop_id)
    /\ writers' = [writers EXCEPT ![w].pc = "save"]
    /\ UNCHANGED <<history_file, templates_file>>
    /\ ConcFrame

\* _generate_shop_template up to json.load: the samples of the shop are
\* taken from the instance's memory, the template is synthesized and the
\* templates file is read
ReadTemplates(w) ==
    /\ writers[w].pc = "appended"
    /\ _should_generate_template(writers[w].learning_history,
                                 writers[w].shop_id)
    /\ LET shop_samples == ShopSamples(writers[w].learning_history,
                                       writers[w].shop_id)
       IN writers' = [writers EXCEPT
            ![w].pc = "write",
            ![w].template = _synthesize_template_from_samples(shop_samples),
            ![w].existing_templates = templates_file,
            ![w].seen = Append(@,
                [shop |-> writers[w].shop_id, used |-> Len(shop_samples),
                 accepted |-> AcceptedFor(writers, writers[w].shop_id)])]
    /\ UNCHANGED <<history_file, templates_file>>
    /\ ConcFrame

\* existing_templates[shop_id] = template; json.dump(existing_templates)
WriteTemplates(w) ==
    /\ writers[w].pc = "write"
    /\ templates_file' = StoreTemplate(writers[w].existing_templates,
                                       writers[w].shop_id, writers[w].template)
    /\ writers' = [writers EXCEPT ![w].pc = "save",
                                  ![w].template = NoData,
                                  ![w].existing_templates = NoData]
    /\ UNCHANGED history_file
    /\ ConcFrame

\* save_learning_history: json.dump(self.learning_history)
SaveHistory(w) ==
    /\ writers[w].pc = "save"
    /\ history_file' = writers[w].learning_history
    /\ writers' = [writers EXCEPT ![w].pc = "ready"]
    /\ UNCHANGED templates_file
    /\ ConcFrame

ConcNext ==
    \E w \in Writers :
        \/ NewLearner(w)
        \/ AppendSample(w)
        \/ SkipGenerate(w)
        \/ ReadTemplates(w)
        \/ WriteTemplates(w)
        \/ SaveHistory(w)

ConcInit == Init /\ GEMINI_AVAILABLE

ConcSpec == ConcInit /\ [][ConcNext]_vars

-----------------------------------------------------------------------------
(* Properties of the service *)

\* C19: once the learner has written a template for a shop, the extraction
\* of every document started afterwards uses it: right after the local
\* extraction of a document of a shop with a learned template in the store,
\* the extraction is the template's (its merchant is the shop), not the
\* generic one.  (Violated: the extractor reads shop_templates.json once,
\* when the module is imported, and never again.)
C19_NewDocumentsUseNewTemplate ==
    (/\ pc = "ConfidenceCheck"
     /\ shop_id \in DOMAIN templates_file
     /\ IsLearned(templates_file[shop_id]))
        => extracted_data.merchant = shop_id

-----------------------------------------------------------------------------
(* Properties of the learner instances sharing the files *)

\* no instance is inside a call
Quiescent == \A w \in Writers : writers[w].pc \in {"absent", "ready"}

\* C20: for any interleaving of accepted calls of several learner instances
\* on the same files, no accepted sample is lost (once no call is in
\* progress the history file holds every accepted sample), no synthesized
\* template is lost (the template file has a template for every shop one
\* was synthesized for), and every synthesis used as many samples of the
\* shop as had been accepted for it.  (Violated: each instance appends to
\* its own copy of the history and overwrites the file with it.)
C20_ConcurrentLearningIsAtomic ==
    /\ Quiescent => Len(history_file) = AcceptedTotal(writers)
    /\ Quiescent =>
          \A w \in Writers : \A i \in 1..Len(writers[w].seen) :
              /\ writers[w].seen[i].shop \in DOMAIN templates_file
              /\ IsLearned(templates_file[writers[w].seen[i].shop])
    /\ \A w \in Writers : \A i \in 1..Len(writers[w].seen) :
          writers[w].seen[i].used = writers[w].seen[i].accepted

-----------------------------------------------------------------------------
(* gemini_client shared by several tasks: _make_request, split where       *)
(* _rate_limit_wait reads the clock, sleeps and stamps last_request_time   *)

ClientFrame ==
    UNCHANGED <<moduleVars, learnerVars, processing_stats, runVars, batchVars,
                last_call, concVars, normalizerVars>>

\* time passes
Tick ==
    /\ now < MaxTime
    /\ now' = now + 1
    /\ UNCHANGED <<last_request_time, tasks, issued>>
    /\ ClientFrame

\* _rate_limit_wait up to the test: current_time and last_request_time are
\* read; the task goes to sleep for the rest of the interval or goes on
CheckInterval(t) ==
    /\ tasks[t].pc = "idle"
    /\ Len(issued) + Cardinality({u \in Tasks : tasks[u].pc # "idle"})
           < MaxRequests
    /\ LET time_since_last == now - last_request_time
       IN tasks' = [tasks EXCEPT ![t] =
            IF time_since_last < min_request_interval
            THEN [pc |-> "sleeping",
                  wake |-> now + (min_request_interval - time_since_last)]
            ELSE [pc |-> "stamp", wake |-> 0]]
    /\ UNCHANGED <<now, last_request_time, issued>>
    /\ ClientFrame

\* time.sleep(wait_time) returns
Wake(t) ==
    /\ tasks[t].pc = "sleeping"
    /\ now >= tasks[t].wake
    /\ tasks' = [tasks EXCEPT ![t] = [pc |-> "stamp", wake |-> 0]]
    /\ UNCHANGED <<now, last_request_time, issued>>
    /\ ClientFrame

\* self.last_request_time = time.time(), and requests.post right after it
StampAndPost(t) ==
    /\ tasks[t].pc = "stamp"
    /\ last_request_time' = now
    /\ issued' = Append(issued, now)
    /\ tasks' = [tasks EXCEPT ![t] = IdleTask]
    /\ UNCHANGED now
    /\ ClientFrame

ClientNext ==
    \/ Tick
    \/ \E t \in Tasks : CheckInterval(t) \/ Wake(t) \/ StampAndPost(t)

ClientInit == Init /\ GEMINI_AVAILABLE

ClientSpec == ClientInit /\ [][ClientNext]_vars

\* C21: no two requests of the shared client are posted less than the
\* minimum interval apart.  (Violated: two tasks that read the clock before
\* either stamps last_request_time both find the interval elapsed, or both
\* sleep to the same instant, and post at the same time.)
C21_RequestsAreSpaced ==
    \A i \in 1..Len(issued) : \A j \in 1..Len(issued) :
        i < j => issued[j] - issued[i] >= min_request_interval


-----------------------------------------------------------------------------
(* product_normalizer, called by an operator's session: products are       *)
(* added, mappings are learned, names are normalized                       *)

NormalizerFrame ==
    UNCHANGED <<moduleVars, learnerVars, processing_stats, runVars, batchVars,
                concVars, clientVars>>

\* raw names given to learn_mapping and to normalize
LearnNames == {"Plantain", "Special Kinshasa Banana", "!!!"}
NormalizeNames == RawNames \ {"plantain"}

\* product_normalizer.add_product(name, category, unit) with a name the
\* catalog does not hold yet
AddProductCall ==
    /\ last_call.op # "normalize"
    /\ Len(master_products) < MaxProducts
    /\ \E name \in AddNames :
          /\ product_index(master_products, name) = NoneStr
          /\ master_products' = add_product(master_products, name).catalog
    /\ UNCHANGED <<learned_mappings, last_call>>
    /\ NormalizerFrame

\* product_normalizer.learn_mapping(raw_name, product_id, shop_id)
LearnMappingCall ==
    /\ last_call.op # "normalize"
    /\ \E raw_name \in LearnNames, product_id \in LearnIds,
          shop \in NormShops \cup {NoneStr} :
          LET r == learn_mapping(learned_mappings, raw_name, product_id, shop)
          IN /\ learned_mappings' = r.mappings
             /\ last_call' = [op |-> "learn_mapping", raw_name |-> raw_name,
                              product_id |-> product_id, shop_id |-> shop,
                              ret |-> r.ret]
    /\ UNCHANGED master_products
    /\ NormalizerFrame

\* product_normalizer.normalize(raw_name, shop_id); the similarity functions
\* find a best candidate and its scores
NormalizeProductCall ==
    /\ last_call.op # "normalize"
    /\ \E raw_name \in NormalizeNames, shop \in NormShops \cup {NoneStr},
          sim \in Similarities(master_products) :
          last_call' = [op |-> "normalize", raw_name |-> raw_name,
                        shop_id |-> shop,
                        result |-> normalize(master_products, learned_mappings,
                                             raw_name, shop, sim)]
    /\ UNCHANGED normalizerVars
    /\ NormalizerFrame

NormalizerNext == AddProductCall \/ LearnMappingCall \/ NormalizeProductCall

NormalizerSpec == Init /\ [][NormalizerNext]_vars

\* after learn_mapping(raw_name, product_id, shop): what normalize returns
\* for every text with the same cleaned form, called without a shop or with
\* the shop of the mapping
LearnedResultFor(catalog, mappings, raw_name, product_id, shop) ==
    \A other \in RawNames, s \in {NoneStr, shop},
       sim \in Similarities(catalog) :
       clean_text(other) = clean_text(raw_name) =>
          LET r == normalize(catalog, mappings, other, s, sim)
          IN /\ r.product_id = product_id
             /\ r.confidence = Pct(100)
             /\ r.match_method = "learned"

C23_NeedsReviewIsUniform ==
    last_call.op = "normalize" =>
        (last_call.result.needs_review
            <=> (\/ last_call.result.product_id = NoneStr
                 \/ last_call.result.confidence < Pct(85)))

\* a fuzzy match under the threshold asks for a review
C23_Witness ==
    /\ last_call.op = "normalize"
    /\ last_call.result.match_method = "fuzzy"
    /\ last_call.result.product_id # NoneStr
    /\ last_call.result.confidence = Pct(80)
    /\ last_call.result.needs_review

KeywordOccurs(pattern, text) ==
    CASE pattern = TOTAL_PATTERNS[1] ->
            text \in {"Rice 2 x 500 TOTAL: 1000",
                      "Rice 500 SOUS-TOTAL: 500 SOMME: 600 TAXE: 100"}
      [] pattern = TOTAL_PATTERNS[2] ->
            text = "Palm Oil 2200 MONTANT: 2200 TVA: 100"
      [] pattern = TOTAL_PATTERNS[3] ->
            text = "Rice 500 SOUS-TOTAL: 500 SOMME: 600 TAXE: 100"
      [] pattern = SUBTOTAL_PATTERNS[1] ->
            text = "Rice 500 SOUS-TOTAL: 500 SOMME: 600 TAXE: 100"
      [] pattern = TAX_PATTERNS[1] ->
            text = "Palm Oil 2200 MONTANT: 2200 TVA: 100"
      [] pattern = TAX_PATTERNS[2] ->
            text = "Rice 500 SOUS-TOTAL: 500 SOMME: 600 TAXE: 100"
      [] OTHER -> FALSE

\* the number of samples in which the keyword of a pattern occurs
SampleFrequency(samples, pattern) ==
    Cardinality({i \in 1..Len(samples) :
                    KeywordOccurs(pattern, samples[i].raw_text)})

\* the pattern is the variant of the menu that occurs in most samples, the
\* first seen among equally frequent ones, and it occurs in at least one
MostFrequentOccurring(samples, pattern, menu) ==
    /\ SampleFrequency(samples, pattern) >= 1
    /\ \A k \in 1..Len(menu) :
          SampleFrequency(samples, menu[k])
              <= SampleFrequency(samples, pattern)

\* C25: the total, subtotal and tax pattern of a synthesized template are
\* each a keyword variant that occurs in at least one of the samples, the
\* one that occurs in most of them
C25_PatternOccursInSamples ==
    last_call.op = "synthesize" =>
        LET t == last_call.template
            samples == last_call.samples
        IN /\ "total_pattern" \in DOMAIN t =>
                 MostFrequentOccurring(samples, t.total_pattern, TOTAL_PATTERNS)
           /\ "subtotal_pattern" \in DOMAIN t =>
                 MostFrequentOccurring(samples, t.subtotal_pattern,
                                       SUBTOTAL_PATTERNS)
           /\ "tax_pattern" \in DOMAIN t =>
                 MostFrequentOccurring(samples, t.tax_pattern, TAX_PATTERNS)


\* C26: whenever no process_receipt call is in progress, total_processed =
\* local_success + gemini_fallback + failed: every processed document is
\* counted in exactly one outcome counter, also one whose AI fallback was
\* attempted and did not succeed
C26_EveryDocumentCountedOnce ==
    pc \in {"Idle", "Done", "Failed"} =>
        processing_stats.total_processed
            = processing_stats.local_success
              + processing_stats.gemini_fallback
              + processing_stats.failed


\* the local extraction of the call in progress has returned
LocallyExtracted == pc \in {"ConfidenceCheck", "AcceptLocal", "AIFallback",
                            "LearnFromCorrection", "NormalizeOutput", "Done"}

\* C27: for a shop_id without a loaded template, identified or not, local
\* extraction reports merchant "Unknown" and a confidence of at most 0.7,
\* the fallback condition holds, and the document is not accepted locally
\* when the AI service is available and succeeds
C27_NoTemplateNeedsFallback ==
    (LocallyExtracted /\ shop_id \notin DOMAIN shop_templates) =>
        /\ extracted_data.merchant = "Unknown"
        /\ local_confidence <= Pct(70)
        /\ NeedsFallback(local_confidence, shop_id)
        /\ pc # "ConfidenceCheck" => needs_fallback
        /\ pc # "AcceptLocal" \/ ~GEMINI_AVAILABLE
        /\ (pc = "Done" /\ GEMINI_AVAILABLE /\ GeminiSucceeded(gemini_data))
              => result.processing_method = "gemini"

\* an identified shop without template reaches 0.7 and still goes to the AI
C27_Witness ==
    /\ pc = "Done"
    /\ shop_id = "LocalShop"
    /\ shop_id \notin DOMAIN shop_templates
    /\ local_confidence = Pct(70)
    /\ GEMINI_AVAILABLE
    /\ result.processing_method = "gemini"


\* C28: on the AI path every item of the result has the quantity the AI
\* response gave for it, and its total is that quantity times its price
C28_AiQuantityKept ==
    (pc = "Done" /\ result.processing_method = "gemini") =>
        /\ Len(result.items) = Len(gemini_data.items)
        /\ \A i \in 1..Len(result.items) :
              /\ result.items[i].qty = gemini_data.items[i].quantity
              /\ result.items[i].total
                    = gemini_data.items[i].quantity * result.items[i].price

\* C29: on the local path every item of the result still carries the
\* product_id, category, normalized name and match confidence the extractor
\* attached to it: NormalizeOutput changes nothing of a retained item but
\* its total
C29_RetainedItemKeepsItsFields ==
    (pc = "Done" /\ result.processing_method = "local") =>
        \A i \in 1..Len(result.items) :
            \E j \in 1..Len(extracted_data.items) :
                \A k \in DOMAIN extracted_data.items[j] \ {"total"} :
                    /\ k \in DOMAIN result.items[i]
                    /\ result.items[i][k] = extracted_data.items[j][k]


\* C30: a learn_from_gemini_correction call for shop S changes at most the
\* entry of S in the template store, whatever template S had before; the
\* templates of all other shops are left as they are; reset_learning
\* empties the learning history and changes no stored template
C30_LearningTouchesOneTemplate ==
    [][/\ (last_call'.op = "learn" /\ <<learning_history, templates_file>>'
                                       # <<learning_history, templates_file>>)
            => /\ DOMAIN templates_file' \subseteq
                     DOMAIN templates_file \cup {last_call'.shop_id}
               /\ \A s \in DOMAIN templates_file \ {last_call'.shop_id} :
                     /\ s \in DOMAIN templates_file'
                     /\ templates_file'[s] = templates_file[s]
       /\ last_call'.op = "reset"
            => /\ learning_history' = <<>>
               /\ templates_file' = templates_file
      ]_vars

\* LocalShop got its learned template while ShopA kept the curated one
C30_Witness ==
    /\ last_call.op = "learn"
    /\ last_call.ret
    /\ last_call.shop_id = "LocalShop"
    /\ IsLearned(templates_file["LocalShop"])
    /\ templates_file["ShopA"] = CuratedTemplate

====
